---- MODULE Spec2Model ----
(***************************************************************************)
(* NOVA shard store, shard index and MCP / FastAPI tool handlers.          *)
(*                                                                         *)
(* A JSON object is a function from its keys to its values, so an absent   *)
(* key is a key outside DOMAIN and d.get(k, default) is Get(d, k, default).*)
(* A text is the sequence of its whitespace separated words ("" is <<>>);  *)
(* theme, intent and shard ids are single words.  An instant is a day      *)
(* number; datetime.now().isoformat() strings of one format order as the   *)
(* instants they denote, and the missing-timestamp sort key "" orders      *)
(* before all of them.                                                     *)
(***************************************************************************)
EXTENDS Integers, Sequences, FiniteSets, TLC

VARIABLES
    files,   \* SHARD_DIR: filename stem -> content of <stem>.json
    index,   \* INDEX_FILE: [kind, entries]
    now,     \* the wall clock read by datetime.now()
    ret,     \* what the last completed call returned
    writes,  \* how many calls have written a shard file so far
    inflight \* records loaded by calls that have not saved them yet, by process

vars == <<files, index, now, ret, writes, inflight>>

(* ----------------------------- bounds --------------------------------- *)

\* the clock runs from StartTime to MaxTime
MaxTime == 16
\* create and merge are offered while fewer than MaxFiles files exist
MaxFiles == 3
\* update is offered while the history is shorter than MaxHist
MaxHist == 2
\* merge is offered id lists of 2 .. MaxMergeIds ids
MaxMergeIds == 2
\* calls that write a shard file are offered while fewer than MaxWrites were made
MaxWrites == 2

(* ------------------------- program constants -------------------------- *)

RecentDays == 3
StaleDays == 14
FrequentUses == 10
MinMergeIds == 2
ScoreScale == 10000

\* the first clock reading: late enough for a shard to be stale
StartTime == StaleDays + 1

(* --------------------------- JSON helpers ----------------------------- *)

EmptyDict == <<>>

Get(d, k, default) == IF k \in DOMAIN d THEN d[k] ELSE default

DictSet(d, k, v) == (k :> v) @@ d

DictDel(d, ks) == [k \in DOMAIN d \ ks |-> d[k]]

Range(s) == {s[i] : i \in DOMAIN s}

\* a file whose bytes are not valid JSON (corrupt, partial write)
Corrupt == [corrupt |-> TRUE]

IsCorrupt(c) == "corrupt" \in DOMAIN c

\* a last_used string that datetime.fromisoformat rejects
BadTime == -1

\* the sort key of an entry without a timestamp: ""
NoTimestamp == 0

\* a last_used that is not a string (a number, a list)
WrongTime == -2

\* a usage_count that is not a number (a string, null)
BadCount == -3

\* a JSON value that is not an object where the code expects one
NotAMapping == [not_a_mapping |-> TRUE]

IsMapping(v) == "not_a_mapping" \notin DOMAIN v

(* --------------------------- file names ------------------------------- *)

\* base names in the order sorted(os.listdir()) gives their files
SortedBases ==
    <<"core_merged", "core_reflection", "ghost", "ideas_design", "nova_general_memory">>

Suffixed(base, i) == IF i = 0 THEN base ELSE base \o "_" \o ToString(i)

\* every stem the model can hold, in sorted(os.listdir(SHARD_DIR)) order:
\* "x.json" < "x_1.json" < "x_2.json" < "y.json"
SortedStems ==
    LET n == MaxFiles + 1
    IN  [k \in 1..(Len(SortedBases) * n) |->
            Suffixed(SortedBases[((k - 1) \div n) + 1], (k - 1) % n)]

ListDir(fs) == SelectSeq(SortedStems, LAMBDA s : s \in DOMAIN fs)

FileName(stem) == stem \o ".json"

\* sanitize_filename on the names the handlers are given here
sanitize_filename(name) ==
    CASE name = "Core_reflection" -> "core_reflection"
      [] name = "Core_merged"     -> "core_merged"
      [] name = "Ideas_design"    -> "ideas_design"
      [] OTHER                    -> name

RECURSIVE UniqueFrom(_, _, _)
UniqueFrom(base, i, fs) ==
    IF Suffixed(base, i) \notin DOMAIN fs
    THEN Suffixed(base, i)
    ELSE UniqueFrom(base, i + 1, fs)

\* the stem of the file name get_unique_filename returns
\* a name chosen without looking at the directory
get_unique_filename_reused(base, fs) == base

get_unique_filename(base, fs) == UniqueFrom(base, 0, fs)

(* --------------------------- shard I/O -------------------------------- *)

None == [none |-> TRUE]

IsNone(x) == "none" \in DOMAIN x

Raised == [raised |-> TRUE]

IsRaised(x) == "raised" \in DOMAIN x

\* load_shard_file without its try/except: the parse error escapes
load_shard_file_nocatch(fs, stem) ==
    IF IsCorrupt(fs[stem]) THEN Raised ELSE fs[stem]

\* shard_index.load_shard_file: the parsed object, None on any failure
load_shard_file(fs, stem) ==
    IF IsCorrupt(fs[stem]) THEN None ELSE fs[stem]

\* load_shard handing out an empty record for an id that has no file
load_shard_or_new(fs, id) ==
    IF id \notin DOMAIN fs THEN [status |-> "ok", data |-> [shard_id |-> id]]
    ELSE IF IsCorrupt(fs[id]) THEN [status |-> "decode_error"]
    ELSE [status |-> "ok", data |-> fs[id]]

\* nova_server.load_shard: FileNotFoundError, a JSON decode error, or the data
load_shard(fs, id) ==
    IF id \notin DOMAIN fs THEN [status |-> "not_found"]
    ELSE IF IsCorrupt(fs[id]) THEN [status |-> "decode_error"]
    ELSE [status |-> "ok", data |-> fs[id]]

save_shard(fs, stem, data) == DictSet(fs, stem, data)

\* a usage update that also drops the oldest turn of the history
update_shard_usage_trimmed(data, t) ==
    LET meta == Get(data, "meta_tags", EmptyDict)
        used == DictSet(data, "meta_tags",
                        DictSet(DictSet(meta, "usage_count",
                                        Get(meta, "usage_count", 0) + 1),
                                "last_used", t))
    IN  IF Get(data, "conversation_history", <<>>) = <<>> THEN used
        ELSE DictSet(used, "conversation_history", Tail(data.conversation_history))

update_shard_usage(data, t) ==
    LET meta  == Get(data, "meta_tags", EmptyDict)
        meta1 == DictSet(meta, "usage_count", Get(meta, "usage_count", 0) + 1)
        meta2 == DictSet(meta1, "last_used", t)
    IN  DictSet(data, "meta_tags", meta2)

(* --------------------------- tag classifier --------------------------- *)

\* the legacy classifier of update_shard_index.py: usage tags only
classify_tags_legacy(shard, t) ==
    LET meta  == Get(shard, "meta_tags", EmptyDict)
        usage == Get(meta, "usage_count", 0)
        timed == IF "last_used" \in DOMAIN meta /\ meta["last_used"] \notin {BadTime, WrongTime}
                 THEN (IF t - meta["last_used"] < RecentDays
                       THEN <<"recent">> ELSE <<>>)
                      \o (IF t - meta["last_used"] > StaleDays
                          THEN <<"stale">> ELSE <<>>)
                 ELSE <<>>
    IN  timed \o (IF usage > FrequentUses THEN <<"frequently_used">> ELSE <<>>)

\* a classifier that tags "archived" for the intent and again for archived_at
classify_tags_twice(shard, t) ==
    LET meta  == Get(shard, "meta_tags", EmptyDict)
        ctx   == Get(shard, "context", EmptyDict)
    IN  classify_tags_legacy(shard, t)
        \o (IF Get(meta, "intent", "") = "archived" THEN <<"archived">> ELSE <<>>)
        \o (IF "archived_at" \in DOMAIN meta THEN <<"archived">> ELSE <<>>)
        \o (IF Get(ctx, "embedding", <<>>) # <<>> THEN <<"enriched">> ELSE <<>>)

classify_tags(shard, t) ==
    LET meta  == Get(shard, "meta_tags", EmptyDict)
        ctx   == Get(shard, "context", EmptyDict)
    IN  classify_tags_legacy(shard, t)
        \o (IF Get(meta, "intent", "") = "archived" THEN <<"archived">> ELSE <<>>)
        \o (IF Get(ctx, "embedding", <<>>) # <<>> THEN <<"enriched">> ELSE <<>>)

(* --------------------------- index builder ---------------------------- *)

ShardIdOf(shard, stem) == Get(shard, "shard_id", stem)

\* the entry update_shard_index.py writes: usage tags only, no enrichment fields
IndexEntryLegacy(shard, stem, t) ==
    [shard_id         |-> ShardIdOf(shard, stem),
     filename         |-> FileName(stem),
     guiding_question |-> Get(shard, "guiding_question", <<>>),
     tags             |-> classify_tags_legacy(shard, t),
     meta             |-> Get(shard, "meta_tags", EmptyDict)]

IndexEntry(shard, stem, t) ==
    [shard_id         |-> ShardIdOf(shard, stem),
     filename         |-> FileName(stem),
     guiding_question |-> Get(shard, "guiding_question", <<>>),
     tags             |-> classify_tags(shard, t),
     meta             |-> Get(shard, "meta_tags", EmptyDict),
     context_summary  |-> Get(Get(shard, "context", EmptyDict), "summary", <<>>),
     context_topics   |-> Get(Get(shard, "context", EmptyDict), "topics", <<>>)]

\* index[key] = entry on an insertion-ordered dict
IndexPut(entries, e) ==
    IF \E i \in DOMAIN entries : entries[i].shard_id = e.shard_id
    THEN [i \in DOMAIN entries |->
            IF entries[i].shard_id = e.shard_id THEN e ELSE entries[i]]
    ELSE Append(entries, e)

RECURSIVE BuildFrom(_, _, _, _)
BuildFrom(names, fs, t, acc) ==
    IF names = <<>> THEN [raised |-> FALSE, entries |-> acc]
    ELSE LET stem  == Head(names)
             shard == load_shard_file(fs, stem)
         IN  IF IsRaised(shard) THEN [raised |-> TRUE, entries |-> acc]
             ELSE IF IsNone(shard) THEN BuildFrom(Tail(names), fs, t, acc)
             ELSE BuildFrom(Tail(names), fs, t,
                            IndexPut(acc, IndexEntry(shard, stem, t)))

\* build_index(): [raised |-> an exception escaped, entries |-> the dict built,
\* in insertion order]
build_index(fs, t) == BuildFrom(ListDir(fs), fs, t, <<>>)

IndexDict(entries) == [kind |-> "dict", entries |-> entries]

IndexMissing == [kind |-> "missing", entries |-> <<>>]

IndexCorrupt == [kind |-> "corrupt", entries |-> <<>>]

IndexLegacy == [kind |-> "legacy", entries |-> <<>>]

\* update_index that adds to what INDEX_FILE held instead of overwriting it
update_index_append(idx, fs, t) ==
    [raised  |-> FALSE,
     entries |-> idx.entries \o build_index(fs, t).entries,
     saved   |-> IndexDict(idx.entries \o build_index(fs, t).entries)]

\* a handler that returns without calling update_index
update_index_skipped(idx, fs, t) ==
    [raised |-> FALSE, entries |-> idx.entries, saved |-> idx]

\* update_index(): index = build_index(); save_index(index); return index.
\* [raised |-> build_index raised, entries |-> the dict returned,
\*  saved |-> INDEX_FILE after]
update_index(idx, fs, t) ==
    LET built == build_index(fs, t)
    IN  IF built.raised
        THEN [raised |-> TRUE, entries |-> <<>>, saved |-> idx]
        ELSE [raised  |-> FALSE,
              entries |-> built.entries,
              saved   |-> IndexDict(built.entries)]

\* a legacy INDEX_FILE {"shards": [filenames]} with its list, as file stems
IndexLegacyOf(names) == [kind |-> "legacy", entries |-> <<>>, shards |-> names]

\* the entry an in-place migration would make for a listed file
MigratedEntry(stem) ==
    [shard_id |-> stem, filename |-> FileName(stem), guiding_question |-> <<>>,
     tags |-> <<>>, meta |-> EmptyDict, context_summary |-> <<>>,
     context_topics |-> <<>>]

\* load_index migrating a legacy index in place: the listed files keep an entry
load_index_migrating(idx, fs, t) ==
    LET built == build_index(fs, t).entries
        names == Get(idx, "shards", <<>>)
        kept  == SelectSeq(names, LAMBDA n :
                              \A i \in DOMAIN built : built[i].shard_id # n)
        all   == built \o [i \in DOMAIN kept |-> MigratedEntry(kept[i])]
    IN  CASE idx.kind \in {"missing", "corrupt"} -> [loaded |-> <<>>, saved |-> idx]
          [] idx.kind = "legacy" -> [loaded |-> all, saved |-> IndexDict(all)]
          [] OTHER -> [loaded |-> idx.entries, saved |-> idx]

\* shard_index.load_index: [loaded |-> the dict returned, saved |-> INDEX_FILE after].
\* The legacy migration runs inside the try block: a failure there gives {}.
load_index(idx, fs, t) ==
    CASE idx.kind = "missing" -> [loaded |-> <<>>, saved |-> idx]
      [] idx.kind = "corrupt" -> [loaded |-> <<>>, saved |-> idx]
      [] idx.kind = "legacy"  ->
            LET built == build_index(fs, t)
            IN  IF built.raised
                THEN [loaded |-> <<>>, saved |-> idx]
                ELSE [loaded |-> built.entries, saved |-> IndexDict(built.entries)]
      [] OTHER                -> [loaded |-> idx.entries, saved |-> idx]

\* index = load_index(); if not index: index = update_index()
LoadOrRebuild(idx, fs, t) ==
    LET got == load_index(idx, fs, t)
        new == update_index(got.saved, fs, t)
    IN  IF got.loaded # <<>>
        THEN [raised |-> FALSE, loaded |-> got.loaded, saved |-> got.saved]
        ELSE [raised |-> new.raised, loaded |-> new.entries, saved |-> new.saved]

(* --------------------------- relevance engine ------------------------- *)

\* str.lower() on the words used here
Lower(w) ==
    CASE w = "Design" -> "design"
      [] w = "Core"   -> "core"
      [] w = "Ideas"  -> "ideas"
      [] w = "Memory" -> "memory"
      [] w = "What"   -> "what"
      [] OTHER        -> w

\* set(text.lower().split())
Tokens(text) == {Lower(text[i]) : i \in DOMAIN text}

\* a one-word string as a text; "" has no words
WordsOf(str) == IF str = "" THEN <<>> ELSE <<str>>

\* the five fields both implementations join into the searchable text
Searchable(entry) ==
    Get(entry, "guiding_question", <<>>)
    \o Get(entry, "context_summary", <<>>)
    \o Get(entry, "context_topics", <<>>)
    \o WordsOf(Get(Get(entry, "meta", EmptyDict), "theme", ""))
    \o WordsOf(Get(Get(entry, "meta", EmptyDict), "intent", ""))

Max(a, b) == IF a >= b THEN a ELSE b

\* round(a / b, 4) in units of 1 / ScoreScale, for b > 0
RoundedRatio(a, b) ==
    IF a >= 0 THEN (2 * ScoreScale * a + b) \div (2 * b)
    ELSE 0 - ((2 * ScoreScale * (0 - a) + b) \div (2 * b))

Overlap(query, text) == Cardinality(Tokens(query) \cap Tokens(text))

\* the overlap over the number of tokens of the searchable text
TokenScorePerText(query, text) ==
    RoundedRatio(Overlap(query, text), Max(Cardinality(Tokens(text)), 1))

\* round(len(overlap) / max(len(query_tokens), 1), 4)
TokenScore(query, text) ==
    RoundedRatio(Overlap(query, text), Max(Cardinality(Tokens(query)), 1))

\* the filter testing for a tag the classifier never writes
IsArchivedEntryTypo(entry) == "archive" \in Range(Get(entry, "tags", <<>>))

\* "archived" in entry.get("tags", [])
IsArchivedEntry(entry) == "archived" \in Range(Get(entry, "tags", <<>>))

\* list.sort(key=score, reverse=True): stable, equal scores keep their order
RECURSIVE SortByScoreDesc(_)
SortByScoreDesc(rs) ==
    IF rs = <<>> THEN <<>>
    ELSE LET front == SortByScoreDesc(SubSeq(rs, 1, Len(rs) - 1))
             last  == rs[Len(rs)]
             n     == Cardinality({i \in DOMAIN front : front[i].score >= last.score})
         IN  SubSeq(front, 1, n) \o <<last>> \o SubSeq(front, n + 1, Len(front))

\* xs[:n]: the first n elements, and for a negative n all but the last -n
Take(xs, n) ==
    IF n >= 0 THEN SubSeq(xs, 1, IF n < Len(xs) THEN n ELSE Len(xs))
    ELSE SubSeq(xs, 1, Len(xs) + n)

RECURSIVE McpSearchScan(_, _)
McpSearchScan(entries, query) ==
    IF entries = <<>> THEN <<>>
    ELSE LET entry == Head(entries)
             text  == Searchable(entry) \o <<entry.shard_id>>
             rest  == McpSearchScan(Tail(entries), query)
         IN  IF IsArchivedEntry(entry) THEN rest
             ELSE IF Overlap(query, text) > 0
             THEN <<[shard_id         |-> entry.shard_id,
                     guiding_question |-> Get(entry, "guiding_question", <<>>),
                     score            |-> TokenScore(query, text),
                     tags             |-> Get(entry, "tags", <<>>),
                     context_summary  |-> Get(entry, "context_summary", <<>>)]>>
                  \o rest
             ELSE rest

\* the "results" nova_shard_search returns for an index
McpSearchResults(entries, query, top_n) ==
    Take(SortByScoreDesc(McpSearchScan(entries, query)), top_n)

Dot(a, b) == a[1] * b[1] + a[2] * b[2]

ISqrt(n) == CHOOSE r \in 0..n : r * r <= n /\ (r + 1) * (r + 1) > n

\* main.cosine_similarity, rounded as the caller rounds it; the vectors used
\* here have integer norms
cosine_similarity(a, b) ==
    LET norm == ISqrt(Dot(a, a)) * ISqrt(Dot(b, b))
    IN  IF norm > 0 THEN RoundedRatio(Dot(a, b), norm) ELSE 0

StemOfFile(fname) ==
    IF \E st \in Range(SortedStems) : FileName(st) = fname
    THEN CHOOSE st \in Range(SortedStems) : FileName(st) = fname
    ELSE ""

\* the shard embedding search_shards_semantic reads from the shard file; <<>> when
\* the file is missing or unreadable, or carries no embedding
ShardEmbedding(fs, entry) ==
    LET stem == StemOfFile(entry.filename)
    IN  IF stem \notin DOMAIN fs \/ IsCorrupt(fs[stem]) THEN <<>>
        ELSE Get(Get(fs[stem], "context", EmptyDict), "embedding", <<>>)

RECURSIVE SemanticScan(_, _, _, _)
SemanticScan(entries, query, qemb, fs) ==
    IF entries = <<>> THEN <<>>
    ELSE LET entry    == Head(entries)
             rest     == SemanticScan(Tail(entries), query, qemb, fs)
             semantic == qemb # <<>> /\ ShardEmbedding(fs, entry) # <<>>
         IN  IF IsArchivedEntry(entry) THEN rest
             ELSE <<[shard_id         |-> entry.shard_id,
                     guiding_question |-> Get(entry, "guiding_question", <<>>),
                     score            |-> IF semantic
                                          THEN cosine_similarity(qemb, ShardEmbedding(fs, entry))
                                          ELSE TokenScore(query, Searchable(entry)),
                     method           |-> IF semantic THEN "semantic" ELSE "fuzzy",
                     tags             |-> Get(entry, "tags", <<>>)]>>
                  \o rest

\* main.search_shards_semantic; qemb is what get_query_embedding returned
\* (<<>> for None)
search_shards_semantic(entries, query, top_n, qemb, fs) ==
    Take(SortByScoreDesc(SemanticScan(entries, query, qemb, fs)), top_n)

(* ----------------------------- merge engine --------------------------- *)

\* the merged history left in concatenation order
SortByTimestampSkipped(h) == h

SortKey(e) == Get(e, "timestamp", NoTimestamp)

\* list.sort(key=lambda x: x.get("timestamp", "")): stable, ascending
\* a sort that puts an entry before the entries of equal key already placed
RECURSIVE SortByTimestampUnstable(_)
SortByTimestampUnstable(h) ==
    IF h = <<>> THEN <<>>
    ELSE LET front == SortByTimestampUnstable(SubSeq(h, 1, Len(h) - 1))
             last  == h[Len(h)]
             n     == Cardinality({i \in DOMAIN front : SortKey(front[i]) < SortKey(last)})
         IN  SubSeq(front, 1, n) \o <<last>> \o SubSeq(front, n + 1, Len(front))

RECURSIVE SortByTimestamp(_)
SortByTimestamp(h) ==
    IF h = <<>> THEN <<>>
    ELSE LET front == SortByTimestamp(SubSeq(h, 1, Len(h) - 1))
             last  == h[Len(h)]
             n     == Cardinality({i \in DOMAIN front : SortKey(front[i]) <= SortKey(last)})
         IN  SubSeq(front, 1, n) \o <<last>> \o SubSeq(front, n + 1, Len(front))

\* the first source id, in list order, whose load_shard fails; 0 when all load
FirstFailure(fs, ids) ==
    IF \E i \in DOMAIN ids : load_shard(fs, ids[i]).status # "ok"
    THEN CHOOSE i \in DOMAIN ids :
            /\ load_shard(fs, ids[i]).status # "ok"
            /\ \A j \in 1..(i - 1) : load_shard(fs, ids[j]).status = "ok"
    ELSE 0

RECURSIVE ConcatHistories(_, _)
ConcatHistories(fs, ids) ==
    IF ids = <<>> THEN <<>>
    ELSE Get(fs[Head(ids)], "conversation_history", <<>>)
         \o ConcatHistories(fs, Tail(ids))

SourceQuestions(fs, ids) ==
    [i \in DOMAIN ids |-> <<ids[i], Get(fs[ids[i]], "guiding_question", <<>>)>>]

\* archiving that also counts as a use of the shard
MarkArchivedAndUsed(data, t) ==
    LET used == update_shard_usage(data, t)
    IN  DictSet(used, "meta_tags",
                DictSet(DictSet(used["meta_tags"], "intent", "archived"),
                        "archived_at", t))

\* data.setdefault("meta_tags", {})["intent"] = "archived"; archived_at = now
MarkArchived(data, t) ==
    LET meta == Get(data, "meta_tags", EmptyDict)
    IN  DictSet(data, "meta_tags",
                DictSet(DictSet(meta, "intent", "archived"), "archived_at", t))

\* the archive_originals loop: a source that no longer loads is passed over
RECURSIVE ArchiveAll(_, _, _)
\* archiving by deleting the source files
ArchiveAllRemoved(fs, ids, t) == [st \in DOMAIN fs \ Range(ids) |-> fs[st]]

ArchiveAll(fs, ids, t) ==
    IF ids = <<>> THEN fs
    ELSE LET r == load_shard(fs, Head(ids))
         IN  IF r.status = "ok"
             THEN ArchiveAll(save_shard(fs, Head(ids), MarkArchived(r.data, t)),
                             Tail(ids), t)
             ELSE ArchiveAll(fs, Tail(ids), t)

\* the meta-shard nova_shard_merge writes
MetaShard(fs, ids, new_id, question, theme, t) ==
    [shard_id             |-> new_id,
     guiding_question     |-> question,
     conversation_history |-> SortByTimestamp(ConcatHistories(fs, ids)),
     meta_tags            |-> [intent           |-> "meta_synthesis",
                               theme            |-> theme,
                               usage_count      |-> 1,
                               last_used        |-> t,
                               merged_from      |-> ids,
                               source_questions |-> SourceQuestions(fs, ids)]]

(* ----------------------------- the store ------------------------------ *)

Entry(ts, user, ai) == [timestamp |-> ts, user |-> user, ai |-> ai]

ShardA1 ==
    \* written by create and update: unsorted history, on the tag thresholds
    [shard_id |-> "core_reflection",
     guiding_question |-> <<"Design", "memory">>,
     conversation_history |-> <<Entry(9, "q1", "a1"), Entry(5, "q0", "")>>,
     meta_tags |-> [intent |-> "reflection", theme |-> "Core",
                    usage_count |-> FrequentUses, last_used |-> StartTime - 2]]

ShardA2 ==
    \* an imported record: no shard_id, no meta_tags, an entry without timestamp
    [guiding_question |-> <<"memory">>,
     conversation_history |-> <<[user |-> "q2", ai |-> "a2"]>>]

ShardA3 ==
    \* archived and enriched
    [shard_id |-> "core_reflection",
     guiding_question |-> <<"memory">>,
     conversation_history |-> <<Entry(9, "q1", "a1")>>,
     meta_tags |-> [intent |-> "archived", theme |-> "Core",
                    usage_count |-> FrequentUses + 1, last_used |-> 1,
                    archived_at |-> 2],
     context |-> [summary |-> <<"core", "design">>, topics |-> <<"memory">>,
                  embedding |-> <<3, 4>>]]

ShardB1 ==
    \* enriched, with a last_used that does not parse
    [shard_id |-> "ideas_design",
     guiding_question |-> <<"design">>,
     conversation_history |-> <<Entry(9, "q3", "a3")>>,
     meta_tags |-> [intent |-> "log", theme |-> "Ideas",
                    usage_count |-> 3, last_used |-> BadTime],
     context |-> [summary |-> <<"memory">>, topics |-> <<"Core">>,
                  embedding |-> <<1, 0>>]]

ShardB2 ==
    \* no conversation_history
    [shard_id |-> "ideas_design",
     guiding_question |-> <<"Design">>,
     meta_tags |-> [intent |-> "log", theme |-> "Ideas",
                    usage_count |-> 0, last_used |-> 1]]

StoreAB == ("core_reflection" :> ShardA1) @@ ("ideas_design" :> ShardB1)

StoreImported == ("core_reflection" :> ShardA2) @@ ("ideas_design" :> Corrupt)

StoreArchived == ("core_reflection" :> ShardA3) @@ ("ideas_design" :> ShardB2)

StoreBroken == ("core_reflection" :> Corrupt) @@ ("ideas_design" :> ShardB1)

StoreSingle == ("core_reflection" :> ShardA1)

FreshIndex(fs) == update_index(IndexMissing, fs, StartTime).saved

\* the stores and index files the calls start from: an index file that is up to
\* date, absent, unparsable, or in the legacy list format
InitStates ==
    { <<StoreAB, FreshIndex(StoreAB)>>,
      <<StoreImported, IndexMissing>>,
      <<StoreArchived, IndexCorrupt>>,
      <<StoreBroken, IndexLegacy>>,
      <<StoreSingle, IndexMissing>> }

Init ==
    /\ \E st \in InitStates : files = st[1] /\ index = st[2]
    /\ now = StartTime
    /\ ret = [op |-> "start"]
    /\ writes = 0
    /\ inflight = <<>>

(* ----------------------------- the clock ------------------------------ *)

Tick ==
    /\ now < MaxTime
    /\ now' = now + 1
    /\ UNCHANGED <<files, index, ret, writes>>

(* ------------------------- shard_index.update_index ------------------- *)

\* the time of the previous call when that call was update_index too, else -1
PrevRebuild == IF ret.op = "update_index" /\ ret.status = "ok" THEN ret.at ELSE -1

\* shard_index.py run as a script, the nova://index resource: update_index()
UpdateIndex ==
    LET done == update_index(index, files, now)
    IN  /\ index' = done.saved
        /\ ret' = [op |-> "update_index",
                   status |-> IF done.raised THEN "exception" ELSE "ok",
                   at |-> now, prev_at |-> PrevRebuild]
        /\ UNCHANGED <<files, now, writes>>

(* ------------------------------ inputs -------------------------------- *)

\* ids the callers name: every stored shard and one that never existed
ShardIds == DOMAIN files \cup {"ghost"}

Queries == {<<"memory">>, <<"Design", "core", "ideas_design">>}

TopNs == {1, 2}

\* what get_query_embedding returns: <<>> for None
QueryEmbeddings == {<<>>, <<1, 0>>}

\* the searches made: <<query, top_n>> of nova_shard_search and
\* <<query, top_n, query embedding>> of POST /search
McpSearches == {<<<<"memory">>, 1>>, <<<<"Design", "core", "ideas_design">>, 2>>}

MainSearches ==
    { <<<<"memory">>, 2, <<>>>>,
      <<<<"Design", "core", "ideas_design">>, 1, <<>>>>,
      <<<<"memory">>, 1, <<1, 0>>>>,
      <<<<"Design", "core", "ideas_design">>, 2, <<1, 0>>>> }

UpdateInputs == {<<"note", "reply">>, <<"", "">>}

InitialMessages == {"", "hello"}

\* the id lists of MinMergeIds .. MaxMergeIds ids
MergeIdLists == UNION {[1..n -> ShardIds] : n \in MinMergeIds..MaxMergeIds}

(* ------------------------- nova_server tools -------------------------- *)

NovaShardSearch(query, top_n) ==
    LET got == LoadOrRebuild(index, files, now)
    IN  /\ IF got.raised
           THEN ret' = [op |-> "search", impl |-> "mcp", status |-> "exception"]
           ELSE ret' = [op |-> "search", impl |-> "mcp", status |-> "ok",
                        query |-> query, top_n |-> top_n,
                        results |-> McpSearchResults(got.loaded, query, top_n),
                        total_searched |-> Len(got.loaded)]
        /\ index' = got.saved
        /\ UNCHANGED <<files, now, writes>>

\* main.py POST /search
MainSearch(query, top_n, qemb) ==
    LET got == LoadOrRebuild(index, files, now)
    IN  /\ IF got.raised
           THEN ret' = [op |-> "search", impl |-> "main", status |-> "exception"]
           ELSE ret' = [op |-> "search", impl |-> "main", status |-> "ok",
                        query |-> query, top_n |-> top_n, qemb |-> qemb,
                        results |-> search_shards_semantic(got.loaded, query, top_n,
                                                           qemb, files),
                        total_searched |-> Len(got.loaded)]
        /\ index' = got.saved
        /\ UNCHANGED <<files, now, writes>>

NovaShardCreate(question, intent, theme, initial_message) ==
    LET base     == sanitize_filename(theme \o "_" \o intent)
        shard_id == get_unique_filename(base, files)
        history  == IF initial_message # ""
                    THEN <<Entry(now, initial_message, "")>> ELSE <<>>
        data     == [shard_id             |-> shard_id,
                     guiding_question     |-> question,
                     conversation_history |-> history,
                     meta_tags            |-> [intent |-> intent, theme |-> theme,
                                               usage_count |-> 1, last_used |-> now]]
        saved    == save_shard(files, shard_id, data)
        done     == update_index(index, saved, now)
    IN  /\ Cardinality(DOMAIN files) < MaxFiles
        /\ writes < MaxWrites
        /\ files' = saved
        /\ writes' = writes + 1
        /\ index' = done.saved
        /\ ret' = IF done.raised
                  THEN [op |-> "create", status |-> "exception"]
                  ELSE [op |-> "create", status |-> "created", shard_id |-> shard_id]
        /\ UNCHANGED now

NovaShardUpdate(id, user, ai) ==
    LET r == load_shard(files, id)
    IN  /\ CASE r.status = "not_found" ->
                  /\ ret' = [op |-> "update", id |-> id, status |-> "not_found"]
                  /\ UNCHANGED <<files, writes>>
             [] r.status = "decode_error" ->
                  /\ ret' = [op |-> "update", status |-> "exception"]
                  /\ UNCHANGED <<files, writes>>
             [] OTHER ->
                  LET history == Append(Get(r.data, "conversation_history", <<>>),
                                        Entry(now, user, ai))
                      data    == update_shard_usage(
                                    DictSet(r.data, "conversation_history", history), now)
                  IN  /\ Len(history) <= MaxHist
                      /\ writes < MaxWrites
                      /\ writes' = writes + 1
                      /\ files' = save_shard(files, id, data)
                      /\ ret' = [op |-> "update", id |-> id, status |-> "updated",
                                 total_entries |-> Len(history)]
        /\ UNCHANGED <<index, now>>

NovaShardArchive(id) ==
    LET r == load_shard(files, id)
    IN  /\ CASE r.status = "not_found" ->
                  /\ ret' = [op |-> "archive", id |-> id, status |-> "not_found"]
                  /\ UNCHANGED <<files, writes>>
             [] r.status = "decode_error" ->
                  /\ ret' = [op |-> "archive", status |-> "exception"]
                  /\ UNCHANGED <<files, writes>>
             [] OTHER ->
                  /\ writes < MaxWrites
                  /\ writes' = writes + 1
                  /\ files' = save_shard(files, id, MarkArchived(r.data, now))
                  /\ ret' = [op |-> "archive", id |-> id, status |-> "archived"]
        /\ UNCHANGED <<index, now>>

NovaShardMerge(ids, question, theme, archive_originals) ==
    LET bad    == FirstFailure(files, ids)
        new_id == get_unique_filename(sanitize_filename(theme \o "_merged"), files)
        merged == save_shard(files, new_id,
                             MetaShard(files, ids, new_id, question, theme, now))
        saved  == IF archive_originals THEN ArchiveAll(merged, ids, now) ELSE merged
        done   == update_index(index, saved, now)
        call   == [op |-> "merge", sources |-> ids,
                   archive_originals |-> archive_originals]
    IN  /\ IF bad # 0
           THEN /\ ret' = IF load_shard(files, ids[bad]).status = "not_found"
                          THEN [op |-> "merge", status |-> "not_found",
                                failed |-> ids[bad]]
                          ELSE [op |-> "merge", status |-> "exception"]
                /\ UNCHANGED <<files, index, writes>>
           ELSE /\ Cardinality(DOMAIN files) < MaxFiles
                /\ writes < MaxWrites
                /\ writes' = writes + 1
                /\ files' = saved
                /\ index' = done.saved
                /\ ret' = IF done.raised
                          THEN [op |-> "merge", status |-> "exception"]
                          ELSE call @@ [status |-> "merged", new_shard_id |-> new_id,
                                        total_entries |->
                                            Len(ConcatHistories(files, ids))]
        /\ UNCHANGED now

\* the merge calls made: one question and one theme for every id list
MergeCall(ids, archive_originals) ==
    NovaShardMerge(ids, <<"core", "ideas">>, "Core", archive_originals)

Next ==
    \/ Tick /\ UNCHANGED inflight
    \/ UpdateIndex /\ UNCHANGED inflight
    \/ \E c \in McpSearches : NovaShardSearch(c[1], c[2]) /\ UNCHANGED inflight
    \/ \E c \in MainSearches : MainSearch(c[1], c[2], c[3]) /\ UNCHANGED inflight
    \/ \E m \in InitialMessages : NovaShardCreate(<<"Memory", "design">>, "reflection", "Core", m) /\ UNCHANGED inflight
    \/ \E id \in ShardIds, u \in UpdateInputs : NovaShardUpdate(id, u[1], u[2]) /\ UNCHANGED inflight
    \/ \E id \in ShardIds : NovaShardArchive(id) /\ UNCHANGED inflight
    \/ \E ids \in MergeIdLists, a \in BOOLEAN : MergeCall(ids, a) /\ UNCHANGED inflight

Spec == Init /\ [][Next]_vars

(* ------------------------------ claims -------------------------------- *)

Readable(fs) == {st \in DOMAIN fs : ~IsCorrupt(fs[st])}

SearchReturned == ret.op = "search" /\ ret.status = "ok"

Rebuilt == ret.op = "update_index" /\ ret.status = "ok"

\* C1: no result of either search implementation is a shard whose entry in the
\* index that was searched carries the tag "archived".
C1_SearchSkipsArchived ==
    SearchReturned =>
        \A i \in DOMAIN ret.results : \A j \in DOMAIN index.entries :
            index.entries[j].shard_id = ret.results[i].shard_id
                => "archived" \notin Range(index.entries[j].tags)

\* a search returned results from an index holding an archived entry that
\* shares a token with the query
C1_Witness ==
    /\ SearchReturned
    /\ ret.results # <<>>
    /\ \E j \in DOMAIN index.entries :
          /\ "archived" \in Range(index.entries[j].tags)
          /\ Overlap(ret.query, Searchable(index.entries[j])) > 0

WithoutClockTags(idx) ==
    [kind |-> idx.kind,
     entries |-> [i \in DOMAIN idx.entries |->
                    [idx.entries[i] EXCEPT !.tags =
                        SelectSeq(@, LAMBDA tag : tag \notin {"recent", "stale"})]]]

\* C2 as stated: two consecutive update_index calls with no shard file changed in
\* between leave identical index content.
C2_RebuildTwiceIdentical ==
    [][(Rebuilt /\ Rebuilt') => index' = index]_vars

\* no readable shard's last_used is on different sides of the RecentDays or of the
\* StaleDays threshold at clock readings t1 and t2
SameAge(fs, t1, t2) ==
    \A st \in Readable(fs) :
        LET used == Get(Get(fs[st], "meta_tags", EmptyDict), "last_used", BadTime)
        IN  used # BadTime =>
                /\ (t1 - used < RecentDays) <=> (t2 - used < RecentDays)
                /\ (t1 - used > StaleDays) <=> (t2 - used > StaleDays)

\* C2 amended: two consecutive update_index calls with no shard file changed in
\* between leave index content that is identical except for the clock-derived
\* tags "recent" and "stale", and identical when no shard's last_used crossed
\* the 3-day or the 14-day threshold between the calls.
C2_RebuildTwiceSameButClockTags ==
    [][(Rebuilt /\ Rebuilt') =>
            /\ WithoutClockTags(index') = WithoutClockTags(index)
            /\ (SameAge(files, ret.at, ret'.at) => index' = index)]_vars

\* a second rebuild in a row, at a later clock reading, over a non-empty store
C2_Witness ==
    /\ Rebuilt
    /\ ret.prev_at >= 0
    /\ ret.prev_at < ret.at
    /\ index.entries # <<>>

Merged == ret.op = "merge" /\ ret.status = "merged"

Count(e, h) == Cardinality({i \in DOMAIN h : h[i] = e})

IsPermutation(h, g) ==
    /\ Len(h) = Len(g)
    /\ \A e \in Range(h) \cup Range(g) : Count(e, h) = Count(e, g)

\* C5: a successful merge writes a new shard whose history is a permutation of
\* the concatenated source histories in ascending timestamp order (an entry
\* without timestamp sorts as ""), and whose merged_from is the id list given.
C5_MergedHistorySorted ==
    Merged =>
        LET h == files[ret.new_shard_id]["conversation_history"]
        IN  /\ ret.new_shard_id \notin Range(ret.sources)
            /\ IsPermutation(h, ConcatHistories(files, ret.sources))
            /\ \A i, j \in DOMAIN h : i < j => SortKey(h[i]) <= SortKey(h[j])
            /\ files[ret.new_shard_id]["meta_tags"]["merged_from"] = ret.sources
            /\ files[ret.new_shard_id]["meta_tags"]["intent"] = "meta_synthesis"

\* a merge of two different sources whose concatenated histories were out of order
C5_Witness ==
    /\ Merged
    /\ ret.sources[1] # ret.sources[2]
    /\ LET c == ConcatHistories(files, ret.sources)
       IN  \E i, j \in DOMAIN c : i < j /\ SortKey(c[i]) > SortKey(c[j])

SomeMissing(ids) == \E i \in DOMAIN ids : ids[i] \notin DOMAIN files

\* C6 as stated: a merge given an id that resolves to no stored shard returns the
\* not-found error and changes neither the shard files nor the index.
C6_MissingSourceNotFound ==
    [][ret'.op = "merge" =>
        \A ids \in MergeIdLists, a \in BOOLEAN :
            (MergeCall(ids, a) /\ SomeMissing(ids)) =>
                /\ ret'.status = "not_found"
                /\ files' = files
                /\ index' = index]_vars

\* C6, the part the code keeps: a merge given an id that resolves to no stored
\* shard changes neither the shard files nor the index, and returns the not-found
\* error for the first such id when every source listed before it parses.
C6_MissingSourceNothingWritten ==
    [][ret'.op = "merge" =>
        \A ids \in MergeIdLists, a \in BOOLEAN :
            (MergeCall(ids, a) /\ SomeMissing(ids)) =>
                LET first == CHOOSE i \in DOMAIN ids :
                                /\ ids[i] \notin DOMAIN files
                                /\ \A j \in 1..(i - 1) : ids[j] \in DOMAIN files
                IN  /\ files' = files
                    /\ index' = index
                    /\ (\A j \in 1..(first - 1) : ~IsCorrupt(files[ids[j]])) =>
                          ret' = [op |-> "merge", status |-> "not_found",
                                  failed |-> ids[first]]]_vars

\* a merge naming a stored shard and a missing one returned not-found while the
\* persisted index was not the rebuild of the store
C6_Witness ==
    /\ ret.op = "merge"
    /\ ret.status = "not_found"
    /\ ret.failed \notin DOMAIN files
    /\ Readable(files) # {}
    /\ index # IndexDict(build_index(files, now).entries)

\* C7: when merge returns success the persisted index is already rebuilt: it has
\* an entry for the new shard, with archive_originals every source entry is tagged
\* "archived", a search for the new id returns the new shard and no search
\* returns an archived source.
C7_MergeRebuildsIndex ==
    Merged =>
        LET seen == LoadOrRebuild(index, files, now).loaded
            ids  == {seen[i].shard_id : i \in DOMAIN seen}
        IN  /\ index.kind = "dict"
            /\ ret.new_shard_id \in ids
            /\ \E i \in DOMAIN McpSearchResults(seen, <<ret.new_shard_id>>, 1) :
                  McpSearchResults(seen, <<ret.new_shard_id>>, 1)[i].shard_id
                      = ret.new_shard_id
            /\ ret.archive_originals =>
                  /\ \A s \in Range(ret.sources) : \E i \in DOMAIN seen :
                        seen[i].shard_id = s /\ "archived" \in Range(seen[i].tags)
                  /\ \A q \in Queries \cup {<<s>> : s \in Range(ret.sources)},
                        n \in TopNs \cup {Len(seen)} :
                        /\ \A i \in DOMAIN McpSearchResults(seen, q, n) :
                              McpSearchResults(seen, q, n)[i].shard_id
                                  \notin Range(ret.sources)
                        /\ \A e \in QueryEmbeddings :
                            \A i \in DOMAIN search_shards_semantic(seen, q, n, e, files) :
                              search_shards_semantic(seen, q, n, e, files)[i].shard_id
                                  \notin Range(ret.sources)

\* a merge with archive_originals succeeded over an index file that had no
\* usable content before
C7_Witness ==
    /\ Merged
    /\ ret.archive_originals
    /\ writes = 1
    /\ Len(index.entries) > 2

SameBut(old, new, keys) ==
    /\ DictDel(new, {"meta_tags"}) = DictDel(old, {"meta_tags"})
    /\ DictDel(Get(new, "meta_tags", EmptyDict), keys)
         = DictDel(Get(old, "meta_tags", EmptyDict), keys)

\* C8: merge deletes no shard; with archive_originals false it leaves every stored
\* record as it was; with archive_originals true every source ends with intent
\* "archived" and an archived_at, and differs from before in nothing else.
C8_MergeKeepsSources ==
    [][ret'.op = "merge" =>
        \A ids \in MergeIdLists, a \in BOOLEAN : MergeCall(ids, a) =>
          (  /\ DOMAIN files \subseteq DOMAIN files'
            /\ \A st \in DOMAIN files :
                  IF ret'.status = "merged" /\ a /\ st \in Range(ids)
                  THEN /\ files'[st]["meta_tags"]["intent"] = "archived"
                       /\ "archived_at" \in DOMAIN files'[st]["meta_tags"]
                       /\ SameBut(files[st], files'[st], {"intent", "archived_at"})
                  ELSE files'[st] = files[st]  )]_vars

\* a merge archived a source that had a history and was not archived before
C8_Witness ==
    /\ Merged
    /\ ret.archive_originals
    /\ writes = 1
    /\ \E s \in Range(ret.sources) :
          /\ Get(files[s], "conversation_history", <<>>) # <<>>
          /\ Get(files[s]["meta_tags"], "usage_count", 0) # FrequentUses + 1

IsArchived(fs, id) ==
    /\ id \in Readable(fs)
    /\ Get(Get(fs[id], "meta_tags", EmptyDict), "intent", "") = "archived"

\* C9: archiving a shard that is already archived succeeds, changes nothing of it
\* but meta.archived_at, and its classified tags hold "archived" exactly once.
C9_ArchiveIdempotent ==
    [][\A id \in ShardIds :
            (ret'.op = "archive" /\ IsArchived(files, id) /\ NovaShardArchive(id)) =>
                /\ ret'.status = "archived"
                /\ SameBut(files[id], files'[id], {"archived_at"})
                /\ \A st \in DOMAIN files \ {id} : files'[st] = files[st]
                /\ DOMAIN files' = DOMAIN files
                /\ Count("archived", classify_tags(files'[id], now')) = 1]_vars

\* a call archived the shard that the store held archived from the start
C9_Witness ==
    /\ ret.op = "archive"
    /\ ret.status = "archived"
    /\ \E t \in StartTime..MaxTime :
          files[ret.id] = [ShardA3 EXCEPT !["meta_tags"]["archived_at"] = t]

\* C10: archive and update on an id with no shard file return not-found and leave
\* the shard files and the index as they were.
C10_MissingIdNotFound ==
    [][\A id \in ShardIds \ DOMAIN files :
            /\ (ret'.op = "archive" /\ NovaShardArchive(id)) =>
                  /\ ret' = [op |-> "archive", id |-> id, status |-> "not_found"]
                  /\ files' = files
                  /\ index' = index
            /\ \A u \in UpdateInputs :
                  (ret'.op = "update" /\ NovaShardUpdate(id, u[1], u[2])) =>
                      /\ ret' = [op |-> "update", id |-> id, status |-> "not_found"]
                      /\ files' = files
                      /\ index' = index]_vars

\* an update of an id with no shard file returned not-found
C10_Witness ==
    /\ ret.op \in {"archive", "update"}
    /\ ret.status = "not_found"
    /\ ret.id \notin DOMAIN files
    /\ files # <<>>

(* ------------------------------ dedup_json ---------------------------- *)

\* str.strip() on the message texts used here
Strip(s) ==
    CASE s = " q1 " -> "q1"
      [] s = "a1 "  -> "a1"
      [] OTHER      -> s

\* [(m.get(first, "").strip(), m.get(second, "").strip()) for m in messages]
Pairs(messages, first, second) ==
    [i \in DOMAIN messages |->
        <<Strip(Get(messages[i], first, "")), Strip(Get(messages[i], second, ""))>>]

\* normalize_content giving no fingerprint to a record without turns
normalize_content_unless_empty(data) ==
    IF /\ Get(data, "messages", <<>>) = <<>>
       /\ Get(data, "conversation_history", <<>>) = <<>>
    THEN None
    ELSE LET messages == IF Get(data, "messages", <<>>) # <<>>
                         THEN data["messages"]
                         ELSE Get(data, "conversation_history", <<>>)
         IN  [digest |-> IF Get(data, "conversation_history", <<>>) # <<>>
                         THEN Pairs(messages, "user", "ai")
                         ELSE Pairs(messages, "author", "content")]

\* normalize_content hashing the set of pairs, whatever their order
normalize_content_unordered(data) ==
    IF "messages" \notin DOMAIN data /\ "conversation_history" \notin DOMAIN data
    THEN None
    ELSE LET messages == IF Get(data, "messages", <<>>) # <<>>
                         THEN data["messages"]
                         ELSE Get(data, "conversation_history", <<>>)
         IN  [digest |-> IF Get(data, "conversation_history", <<>>) # <<>>
                         THEN Range(Pairs(messages, "user", "ai"))
                         ELSE Range(Pairs(messages, "author", "content"))]

\* dedup_json.normalize_content: None, or the md5 hex digest of json.dumps(core),
\* kept as [digest |-> core]: json.dumps of a list of pairs of strings is one to
\* one (sort_keys orders the keys of dicts, and core holds none) and md5 is taken
\* to be collision free on the stores here
normalize_content(data) ==
    IF "messages" \notin DOMAIN data /\ "conversation_history" \notin DOMAIN data
    THEN None
    ELSE LET messages == IF Get(data, "messages", <<>>) # <<>>
                         THEN data["messages"]
                         ELSE Get(data, "conversation_history", <<>>)
         IN  [digest |-> IF Get(data, "conversation_history", <<>>) # <<>>
                         THEN Pairs(messages, "user", "ai")
                         ELSE Pairs(messages, "author", "content")]

\* the content hash find_duplicates gets for a file; None when the file does not
\* parse (the except branch) or normalize_content returns None
ContentHash(fs, stem) ==
    IF IsCorrupt(fs[stem]) THEN None ELSE normalize_content(fs[stem])

\* the loop of find_duplicates: seen holds <<hash, stem>> in insertion order
RECURSIVE ScanDuplicates(_, _, _, _)
ScanDuplicates(names, fs, seen, duplicates) ==
    IF names = <<>> THEN duplicates
    ELSE LET stem == Head(names)
             h    == ContentHash(fs, stem)
         IN  IF IsNone(h)
             THEN ScanDuplicates(Tail(names), fs, seen, duplicates)
             ELSE IF \E i \in DOMAIN seen : seen[i][1] = h
             THEN ScanDuplicates(Tail(names), fs, seen,
                     Append(duplicates,
                            <<stem, seen[CHOOSE i \in DOMAIN seen : seen[i][1] = h][2]>>))
             ELSE ScanDuplicates(Tail(names), fs, Append(seen, <<h, stem>>), duplicates)

\* find_duplicates(): the list of <<duplicate, original>> file stems
find_duplicates(fs) == ScanDuplicates(ListDir(fs), fs, <<>>, <<>>)

\* a removal loop that deletes the originals
RemoveOriginals(fs, duplicates) ==
    [st \in DOMAIN fs \ {duplicates[i][2] : i \in DOMAIN duplicates} |-> fs[st]]

\* for dup_path, original in duplicates: os.remove(dup_path)
RemoveAll(fs, duplicates) ==
    [st \in DOMAIN fs \ {duplicates[i][1] : i \in DOMAIN duplicates} |-> fs[st]]

\* a main() that deletes whether or not --dry-run was given
RemovalIgnoringDryRun(fs, duplicates, dry_run) == RemoveAll(fs, duplicates)

\* SHARD_DIR after main(): nothing is removed on a dry run
Removal(fs, duplicates, dry_run) ==
    IF dry_run THEN fs ELSE RemoveAll(fs, duplicates)

\* a call of find_duplicates() alone
FindDuplicates ==
    /\ ret' = [op |-> "find_duplicates", duplicates |-> find_duplicates(files)]
    /\ UNCHANGED <<files, index, now, writes>>

\* python dedup_json.py [--dry-run]
DedupMain(dry_run) ==
    LET duplicates == find_duplicates(files)
        left       == Removal(files, duplicates, dry_run)
        done       == update_index(index, left, now)
    IN  /\ files' = left
        /\ index' = IF duplicates = <<>> \/ dry_run THEN index ELSE done.saved
        /\ ret' = [op |-> "dedup", dry_run |-> dry_run, duplicates |-> duplicates,
                   at |-> now]
        /\ UNCHANGED <<now, writes>>

\* stores with duplicate content

ShardD1 ==
    [shard_id |-> "core_merged",
     guiding_question |-> <<"memory">>,
     conversation_history |-> <<Entry(5, "q1", "a1"), Entry(9, "note", "reply")>>,
     meta_tags |-> [intent |-> "meta_synthesis", theme |-> "Core",
                    usage_count |-> 1, last_used |-> StartTime]]

ShardD2 ==
    \* the turns of ShardD1 with surrounding whitespace, other timestamps
    [guiding_question |-> <<"design">>,
     conversation_history |-> <<Entry(7, " q1 ", "a1 "), Entry(8, "note", "reply")>>]

ShardD3 ==
    \* the turns of ShardD1 in the other order
    [guiding_question |-> <<"memory">>,
     conversation_history |-> <<Entry(5, "note", "reply"), Entry(9, "q1", "a1")>>]

ShardD4 ==
    \* the turns of ShardD1 again
    [shard_id |-> "ideas_design",
     guiding_question |-> <<"ideas">>,
     conversation_history |-> <<Entry(1, "q1", "a1"), Entry(2, "note", "reply")>>,
     meta_tags |-> [intent |-> "design", theme |-> "Ideas",
                    usage_count |-> 2, last_used |-> 1]]

ShardD5 ==
    [guiding_question |-> <<"core">>,
     conversation_history |-> <<Entry(3, "q1", "a1")>>]

ShardL1 ==
    \* the legacy schema: messages of author and content
    [guiding_question |-> <<"memory">>,
     messages |-> <<[author |-> "q1", content |-> "a1 "]>>]

ShardL2 ==
    [guiding_question |-> <<"design">>,
     messages |-> <<[author |-> "q3", content |-> "a3"]>>]

ShardE1 ==
    \* as created without an initial message
    [shard_id |-> "ideas_design",
     guiding_question |-> <<"Design">>,
     conversation_history |-> <<>>,
     meta_tags |-> [intent |-> "design", theme |-> "Ideas",
                    usage_count |-> 1, last_used |-> StartTime]]

DedupCopies ==
    ("core_merged" :> ShardD1) @@ ("core_merged_1" :> ShardD2)
    @@ ("core_reflection" :> ShardD3) @@ ("ideas_design" :> ShardD4)

DedupLegacy ==
    ("core_merged" :> ShardD5) @@ ("core_reflection" :> ShardL1)
    @@ ("ideas_design" :> ShardL2)

DedupEmpty ==
    ("core_reflection" :> DictDel(ShardB2, {"shard_id"})) @@ ("ideas_design" :> ShardE1)

DedupBroken ==
    ("core_merged" :> Corrupt) @@ ("core_reflection" :> ShardD5)
    @@ ("ideas_design" :> ShardD2)

DedupStates ==
    { <<DedupCopies, FreshIndex(DedupCopies)>>,
      <<DedupLegacy, IndexMissing>>,
      <<DedupEmpty, FreshIndex(DedupEmpty)>>,
      <<DedupBroken, IndexLegacy>> }

InitDedup ==
    /\ \E st \in DedupStates : files = st[1] /\ index = st[2]
    /\ now = StartTime
    /\ ret = [op |-> "start"]
    /\ writes = 0
    /\ inflight = <<>>

NextDedup ==
    \/ Tick /\ UNCHANGED inflight
    \/ UpdateIndex /\ UNCHANGED inflight
    \/ FindDuplicates /\ UNCHANGED inflight
    \/ \E dry_run \in BOOLEAN : DedupMain(dry_run) /\ UNCHANGED inflight
    \/ \E m \in InitialMessages : NovaShardCreate(<<"Memory", "design">>, "reflection", "Core", m) /\ UNCHANGED inflight
    \/ \E id \in ShardIds, u \in UpdateInputs : NovaShardUpdate(id, u[1], u[2]) /\ UNCHANGED inflight

SpecDedup == InitDedup /\ [][NextDedup]_vars

(* --------------------------- claims on dedup -------------------------- *)

\* the readable shards that carry a history field of either schema
Fingerprinted(fs) ==
    {st \in Readable(fs) :
        "messages" \in DOMAIN fs[st] \/ "conversation_history" \in DOMAIN fs[st]}

\* the whitespace-trimmed turns of a shard: the (user, ai) pairs of its
\* conversation_history, or the (author, content) pairs of a legacy record
TurnsOf(shard) ==
    IF Get(shard, "conversation_history", <<>>) # <<>>
           \/ "messages" \notin DOMAIN shard
    THEN Pairs(Get(shard, "conversation_history", <<>>), "user", "ai")
    ELSE Pairs(shard["messages"], "author", "content")

\* the place of a file in sorted(os.listdir(SHARD_DIR))
Pos(st) == CHOOSE k \in DOMAIN SortedStems : SortedStems[k] = st

\* the first shard, in file name order, with the turns of shard st
FirstWith(fs, st) ==
    CHOOSE o \in Fingerprinted(fs) :
        /\ TurnsOf(fs[o]) = TurnsOf(fs[st])
        /\ \A x \in Fingerprinted(fs) :
              TurnsOf(fs[x]) = TurnsOf(fs[st]) => Pos(o) <= Pos(x)

\* both schemas at once: a legacy record that an update gave a conversation_history
BothSchemas(shard) ==
    /\ Get(shard, "messages", <<>>) # <<>>
    /\ Get(shard, "conversation_history", <<>>) # <<>>

ReportedRight(fs, duplicates) ==
    LET dups == Range(duplicates)
    IN  /\ \A d \in Fingerprinted(fs) :
              FirstWith(fs, d) # d => <<d, FirstWith(fs, d)>> \in dups
        /\ \A p \in dups :
              /\ p[1] \in Fingerprinted(fs)
              /\ p[2] = FirstWith(fs, p[1])
              /\ p[2] # p[1]
        /\ {p[1] : p \in dups} \cap {p[2] : p \in dups} = {}

\* C11 as stated: find_duplicates reports (d, o) exactly for every shard d whose
\* trimmed turns equal those of an earlier shard, o being the first shard with
\* those turns in file name order; no original is also reported as a duplicate.
C11_DuplicatesAreEqualHistories ==
    ret.op = "find_duplicates" => ReportedRight(files, ret.duplicates)

\* C11, the part the code keeps: the same, over stores in which no record carries
\* a legacy messages list together with a conversation_history.
C11_DuplicatesOfOneSchema ==
    (ret.op = "find_duplicates" /\ \A st \in Readable(files) : ~BothSchemas(files[st]))
        => ReportedRight(files, ret.duplicates)

\* find_duplicates reported two duplicates of one original, one of them differing
\* from it in surrounding whitespace only
C11_Witness ==
    /\ ret.op = "find_duplicates"
    /\ \E i, j \in DOMAIN ret.duplicates :
          /\ i # j
          /\ ret.duplicates[i][2] = ret.duplicates[j][2]
          /\ \E e \in Range(files[ret.duplicates[i][1]]["conversation_history"]) :
                Strip(e.user) # e.user

\* C12: find_duplicates, and dedup run with --dry-run, leave every shard file and
\* the persisted index as they were and only report the pairs found.
C12_DetectionDeletesNothing ==
    [][((ret'.op = "find_duplicates" /\ FindDuplicates)
            \/ (ret'.op = "dedup" /\ DedupMain(TRUE))) =>
        /\ files' = files
        /\ index' = index
        /\ ret'.duplicates = find_duplicates(files)]_vars

\* a dry run reported duplicates and every one of them is still stored
C12_Witness ==
    /\ ret.op = "dedup"
    /\ ret.dry_run
    /\ ret.duplicates # <<>>
    /\ \A i \in DOMAIN ret.duplicates : ret.duplicates[i][1] \in DOMAIN files

\* C13: after dedup without --dry-run has removed what it found, exactly the
\* reported duplicates are gone, every other file is as it was, every reported
\* original is stored, one shard is left per fingerprint, and the persisted index
\* is the rebuild of what is left, with no entry for a removed file.
C13_RemovalThenRebuild ==
    [][(ret'.op = "dedup" /\ DedupMain(FALSE) /\ find_duplicates(files) # <<>>) =>
        LET dups == Range(ret'.duplicates)
            hashed(fs) == {st \in DOMAIN fs : ~IsNone(ContentHash(fs, st))}
        IN  /\ DOMAIN files' = DOMAIN files \ {p[1] : p \in dups}
            /\ \A st \in DOMAIN files' : files'[st] = files[st]
            /\ {p[2] : p \in dups} \subseteq DOMAIN files'
            /\ \A st \in hashed(files) :
                  Cardinality({x \in hashed(files') :
                      ContentHash(files', x) = ContentHash(files, st)}) = 1
            /\ index' = IndexDict(build_index(files', now).entries)
            /\ \A i \in DOMAIN index'.entries :
                  StemOfFile(index'.entries[i].filename) \in DOMAIN files'
            /\ \A i \in DOMAIN index'.entries, p \in dups :
                  index'.entries[i].filename # FileName(p[1])]_vars

\* a dedup run removed two duplicates and left an index of the shards kept
C13_Witness ==
    /\ ret.op = "dedup"
    /\ ~ret.dry_run
    /\ Len(ret.duplicates) >= 2
    /\ \A i \in DOMAIN ret.duplicates : ret.duplicates[i][1] \notin DOMAIN files
    /\ Len(index.entries) >= 2

\* two records of one schema each whose turns are the same in another order
Reordered(fs, a, b) ==
    /\ a # b
    /\ ~BothSchemas(fs[a]) /\ ~BothSchemas(fs[b])
    /\ IsPermutation(TurnsOf(fs[a]), TurnsOf(fs[b]))
    /\ TurnsOf(fs[a]) # TurnsOf(fs[b])

FloorNum == 1
FloorDen == 10

\* the top_n guess_relevant_shards is called with by both interact handlers
DefaultTopN == 3

\* what ShardSearchInput accepts as top_n
MinTopN == 1
MaxTopN == 20

\* a floor test that lets a score of exactly 0.1 pass
ReachesFloor(num, den) == FloorDen * num >= FloorNum * den

\* num / den > 0.1
ExceedsFloor(num, den) == FloorDen * num > FloorNum * den

\* the scan of nova_server.guess_relevant_shards: score is len(overlap), every
\* candidate of one call having the denominator max(len(msg_tokens), 1)
RECURSIVE McpGuessScan(_, _)
McpGuessScan(entries, message) ==
    IF entries = <<>> THEN <<>>
    ELSE LET entry == Head(entries)
             rest  == McpGuessScan(Tail(entries), message)
             num   == Overlap(message, Searchable(entry))
         IN  IF IsArchivedEntry(entry) THEN rest
             ELSE IF ExceedsFloor(num, Max(Cardinality(Tokens(message)), 1))
             THEN <<[shard_id |-> entry.shard_id, score |-> num]>> \o rest
             ELSE rest

\* a guess that returns the first entries that are not archived, whatever they score
McpGuessUnfloored(entries, message, top_n) ==
    LET live == Take(SelectSeq(entries, LAMBDA e : ~IsArchivedEntry(e)), top_n)
    IN  [i \in DOMAIN live |-> live[i].shard_id]

\* nova_server.guess_relevant_shards: the ids returned
McpGuess(entries, message, top_n) ==
    LET scored == Take(SortByScoreDesc(McpGuessScan(entries, message)), top_n)
    IN  [i \in DOMAIN scored |-> scored[i].shard_id]

\* main.guess_relevant_shards: the ids of the search results with score > 0.1
MainGuess(entries, message, top_n, qemb, fs) ==
    LET results == search_shards_semantic(entries, message, top_n, qemb, fs)
        kept    == SelectSeq(results, LAMBDA r : ExceedsFloor(r.score, ScoreScale))
    IN  [i \in DOMAIN kept |-> kept[i].shard_id]

(* ------------------------------ interact ------------------------------ *)

FALLBACK_SHARD_ID == "nova_general_memory"

\* " ".join(words): a message as the string the handlers store
RECURSIVE Text(_)
Text(words) ==
    IF words = <<>> THEN ""
    ELSE IF Len(words) = 1 THEN words[1]
    ELSE words[1] \o " " \o Text(Tail(words))

\* main.create_placeholder_shard: writes nothing when the file exists
create_placeholder_shard(fs, id, t) ==
    IF id \in DOMAIN fs THEN fs
    ELSE save_shard(fs, id,
            [shard_id             |-> id,
             guiding_question     |-> <<"What", "core", "principles", "or", "knowledge",
                                        "should", "this", "shard", "(" \o id \o ")",
                                        "contain?">>,
             conversation_history |-> <<>>,
             meta_tags            |-> [intent      |-> "placeholder_generation",
                                       theme       |-> "auto_memory_patch",
                                       usage_count |-> 0,
                                       last_used   |-> t]])

\* the load loop of nova_shard_interact: [fs |-> SHARD_DIR after, shards |-> the
\* ids loaded, errors |-> the ids not found, raised |-> a decode error escaped]
RECURSIVE McpLoad(_, _, _)
McpLoad(fs, ids, t) ==
    IF ids = <<>>
    THEN [fs |-> fs, shards |-> <<>>, errors |-> <<>>, raised |-> FALSE]
    ELSE LET r == load_shard(fs, Head(ids))
         IN  CASE r.status = "decode_error" ->
                    [fs |-> fs, shards |-> <<>>, errors |-> <<>>, raised |-> TRUE]
               [] r.status = "not_found" ->
                    [McpLoad(fs, Tail(ids), t) EXCEPT !.errors = <<Head(ids)>> \o @]
               [] OTHER ->
                    [McpLoad(save_shard(fs, Head(ids), update_shard_usage(r.data, t)),
                             Tail(ids), t)
                        EXCEPT !.shards = <<Head(ids)>> \o @]

\* the load loop of main.interact: [fs |-> SHARD_DIR after, status |-> "ok", or
\* "not_found" (HTTP 404) or "exception" at the first id that does not load]
RECURSIVE MainLoad(_, _, _)
MainLoad(fs, ids, t) ==
    IF ids = <<>> THEN [fs |-> fs, status |-> "ok"]
    ELSE LET r == load_shard(fs, Head(ids))
         IN  CASE r.status = "decode_error" -> [fs |-> fs, status |-> "exception"]
               [] r.status = "not_found"    -> [fs |-> fs, status |-> "not_found"]
               [] OTHER ->
                    MainLoad(save_shard(fs, Head(ids), update_shard_usage(r.data, t)),
                             Tail(ids), t)

\* create_placeholder_shard for every id of a set (the files are distinct)
RECURSIVE Placeholders(_, _, _)
Placeholders(fs, ids, t) ==
    IF ids = {} THEN fs
    ELSE LET id == CHOOSE x \in ids : TRUE
         IN  Placeholders(create_placeholder_shard(fs, id, t), ids \ {id}, t)

\* nova_shard_interact
\* MAX_FRAGMENTS_PER_SHARD when NOVA_MAX_FRAGMENTS is not set
MAX_FRAGMENTS_PER_SHARD == 10

\* one line of context: f"[SHARD: {shard_id}] {role}: {text}"
Fragment(shard_id, role, text) == [shard |-> shard_id, role |-> role, text |-> text]

RECURSIVE FragmentsOf(_, _)
FragmentsOf(history, shard_id) ==
    IF history = <<>> THEN <<>>
    ELSE LET entry == Head(history)
             user  == Get(entry, "user", "")
             ai    == Get(entry, "ai", "")
         IN  (IF user # "" THEN <<Fragment(shard_id, "User", user)>> ELSE <<>>)
             \o (IF ai # "" THEN <<Fragment(shard_id, "NOVA", ai)>> ELSE <<>>)
             \o FragmentsOf(Tail(history), shard_id)

extract_fragments(shard_data, shard_id) ==
    FragmentsOf(Get(shard_data, "conversation_history", <<>>), shard_id)

\* the Python slice s[-m:]: the last m items for m >= 1, the items after the
\* first -m for m <= -1, and the whole of s for m = 0, since -0 is 0
TailSlice(s, m) ==
    LET n     == Len(s)
        start == IF m > 0 THEN (IF m >= n THEN 0 ELSE n - m)
                 ELSE (IF -m >= n THEN n ELSE -m)
    IN  SubSeq(s, start + 1, n)

\* nova_shard_interact in a server started with NOVA_MAX_FRAGMENTS = max
NovaShardInteractMax(max, shard_ids, message, auto_select) ==
    LET inferred == shard_ids = <<>> /\ auto_select
        got      == LoadOrRebuild(index, files, now)
        ids      == IF ~inferred THEN shard_ids
                    ELSE IF got.raised THEN <<>>
                    ELSE McpGuess(got.loaded, message, DefaultTopN)
        done     == McpLoad(files, ids, now)
        call     == [op |-> "interact", impl |-> "mcp", given |-> shard_ids,
                     message |-> message, qemb |-> <<>>, inferred |-> inferred,
                     max_fragments |-> max]
        frags    == [i \in DOMAIN done.shards |->
                       TailSlice(extract_fragments(done.fs[done.shards[i]],
                                                   done.shards[i]), max)]
    IN  /\ index' = IF inferred THEN got.saved ELSE index
        /\ IF ids = <<>>
           THEN /\ ret' = call @@ [status |-> "no_shards_found"]
                /\ UNCHANGED <<files, writes>>
           ELSE /\ writes < MaxWrites
                /\ writes' = writes + 1
                /\ files' = done.fs
                /\ ret' = IF done.raised THEN call @@ [status |-> "exception"]
                          ELSE call @@ [status |-> "loaded", shards |-> done.shards,
                                        errors |-> done.errors, fragments |-> frags]
        /\ UNCHANGED now

NovaShardInteract(shard_ids, message, auto_select) ==
    NovaShardInteractMax(MAX_FRAGMENTS_PER_SHARD, shard_ids, message, auto_select)

\* set(re.findall(r"\[SHARD: ([^\]]+)\]", ai_response)) on the replies used here
Cited(ai) ==
    CASE ai = "see [SHARD: ghost]" -> {"ghost"}
      [] ai = "[SHARD: ideas_design] and [SHARD: ghost]" -> {"ideas_design", "ghost"}
      [] OTHER -> {}

\* main.interact; qemb is what get_query_embedding returns, llm what the chat
\* completion does: [ok |-> FALSE] when it raises, else [ok |-> TRUE, ai |-> the reply]
MainInteract(shard_ids, message, auto_select_shards, qemb, llm, auto_generate) ==
    LET inferred == shard_ids = <<>> \/ auto_select_shards
        call     == [op |-> "interact", impl |-> "main", given |-> shard_ids,
                     message |-> message, qemb |-> qemb, inferred |-> inferred]
    IN  \E got \in {LoadOrRebuild(index, files, now)} :
        \E ids \in {IF ~inferred THEN shard_ids
                    ELSE IF got.raised THEN <<FALLBACK_SHARD_ID>>
                    ELSE LET guessed == MainGuess(got.loaded, message, DefaultTopN,
                                                  qemb, files)
                         IN  IF guessed # <<>> THEN guessed
                             ELSE <<FALLBACK_SHARD_ID>>} :
        \E loaded \in {MainLoad(IF FALLBACK_SHARD_ID \in Range(ids)
                                THEN create_placeholder_shard(files, FALLBACK_SHARD_ID, now)
                                ELSE files,
                                ids, now)} :
            /\ writes < MaxWrites
            /\ writes' = writes + 1
            /\ index' = IF inferred THEN got.saved ELSE index
            /\ CASE loaded.status # "ok" ->
                      /\ files' = loaded.fs
                      /\ ret' = call @@ [status |-> loaded.status]
                 [] ~llm.ok ->
                      /\ files' = loaded.fs
                      /\ ret' = call @@ [status |-> "llm_error", referenced |-> ids]
                 [] OTHER ->
                      \E missing \in {Cited(llm.ai) \ Range(ids)} :
                      \E patched \in {IF auto_generate
                                      THEN Placeholders(loaded.fs, missing, now)
                                      ELSE loaded.fs} :
                      \E primary \in {load_shard(patched, ids[1])} :
                      \E history \in {Append(Get(primary.data, "conversation_history", <<>>),
                                             Entry(now, Text(message), llm.ai))} :
                          /\ Len(history) <= MaxHist
                          /\ files' = save_shard(patched, ids[1],
                                         DictSet(primary.data, "conversation_history",
                                                 history))
                          /\ ret' = call @@ [status |-> "ok", referenced |-> ids,
                                             missing |-> missing]
            /\ Cardinality(DOMAIN files') <= MaxFiles
            /\ UNCHANGED now

(* --------------------- the calls of the relevance engine -------------- *)

\* nova_server.guess_relevant_shards on the index as nova_shard_interact gets it
McpGuessCall(message, top_n) ==
    LET got  == LoadOrRebuild(index, files, now)
        call == [op |-> "auto_select", impl |-> "mcp", message |-> message,
                 top_n |-> top_n, qemb |-> <<>>]
    IN  /\ ret' = IF got.raised THEN call @@ [status |-> "exception"]
                  ELSE call @@ [status |-> "ok",
                                ids |-> McpGuess(got.loaded, message, top_n)]
        /\ index' = got.saved
        /\ UNCHANGED <<files, now, writes>>

\* main.guess_relevant_shards on the index as POST /interact gets it
MainGuessCall(message, top_n, qemb) ==
    LET got  == LoadOrRebuild(index, files, now)
        call == [op |-> "auto_select", impl |-> "main", message |-> message,
                 top_n |-> top_n, qemb |-> qemb]
    IN  /\ ret' = IF got.raised THEN call @@ [status |-> "exception"]
                  ELSE call @@ [status |-> "ok",
                                ids |-> MainGuess(got.loaded, message, top_n, qemb, files)]
        /\ index' = got.saved
        /\ UNCHANGED <<files, now, writes>>

\* ShardSearchInput: top_n with ge=1, le=20; the tool runs on valid input only
ValidTopN(top_n) == top_n \in MinTopN..MaxTopN

\* a nova_shard_search call as the client makes it
NovaShardSearchCall(query, top_n) ==
    IF ValidTopN(top_n) THEN NovaShardSearch(query, top_n)
    ELSE /\ ret' = [op |-> "search", impl |-> "mcp", status |-> "rejected",
                    query |-> query, top_n |-> top_n]
         /\ UNCHANGED <<files, index, now, writes>>

\* nova_shard_list
NovaShardList ==
    LET done == update_index(index, files, now)
    IN  /\ index' = done.saved
        /\ ret' = IF done.raised THEN [op |-> "list", status |-> "exception"]
                  ELSE [op |-> "list", status |-> "ok",
                        total |-> Len(done.entries),
                        shards |-> [i \in DOMAIN done.entries |->
                                      done.entries[i].shard_id]]
        /\ UNCHANGED <<files, now, writes>>

(* ------------------- the store and inputs of auto-select -------------- *)

ShardC1 ==
    [shard_id |-> "core_merged",
     guiding_question |-> <<"memory", "core">>,
     conversation_history |-> <<Entry(9, "q1", "a1")>>,
     meta_tags |-> [intent |-> "log", theme |-> "Ideas",
                    usage_count |-> 1, last_used |-> StartTime - 1]]

StoreThree ==
    ("core_merged" :> ShardC1) @@ ("core_reflection" :> ShardA1)
    @@ ("ideas_design" :> ShardB1)

SelectStates ==
    { <<StoreThree, FreshIndex(StoreThree)>>,
      <<StoreAB, IndexMissing>>,
      <<StoreImported, IndexMissing>>,
      <<StoreArchived, IndexCorrupt>>,
      <<StoreSingle, FreshIndex(StoreSingle)>> }

\* ten distinct tokens: one shared token is a score of exactly 0.1
TenWords == <<"memory", "reflection", "t1", "t2", "t3", "t4", "t5", "t6", "t7", "t8">>

Words3 == <<"Design", "core", "ideas_design">>

\* the calls made: <<message, top_n>> of nova_server.guess_relevant_shards and
\* <<message, top_n, query embedding>> of main.guess_relevant_shards
McpGuesses ==
    {<<<<"memory">>, 1>>, <<Words3, 2>>, <<TenWords, DefaultTopN>>,
     <<<<"zzz">>, DefaultTopN>>}

MainGuesses ==
    {<<<<"memory">>, 2, <<>>>>, <<TenWords, DefaultTopN, <<>>>>,
     <<<<"memory">>, 1, <<1, 0>>>>, <<<<"zzz">>, DefaultTopN, <<1, 0>>>>}

\* the searches as the clients send them: top_n in range, below MinTopN and
\* above MaxTopN
McpSearchCalls ==
    {<<<<"memory">>, 1>>, <<Words3, 2>>, <<TenWords, 2>>,
     <<<<"memory">>, 0>>, <<<<"zzz">>, MaxTopN + 1>>}

MainSearchCalls ==
    {<<<<"memory">>, 1, <<>>>>, <<Words3, 2, <<>>>>, <<<<"memory">>, 0, <<>>>>,
     <<<<"memory">>, -1, <<1, 0>>>>, <<TenWords, 2, <<1, 0>>>>}

InitSelect ==
    /\ \E st \in SelectStates : files = st[1] /\ index = st[2]
    /\ now = StartTime
    /\ ret = [op |-> "start"]
    /\ writes = 0
    /\ inflight = <<>>

NextSelect ==
    \/ Tick /\ UNCHANGED inflight
    \/ UpdateIndex /\ UNCHANGED inflight
    \/ \E id \in ShardIds : NovaShardArchive(id) /\ UNCHANGED inflight
    \/ \E c \in McpGuesses : McpGuessCall(c[1], c[2]) /\ UNCHANGED inflight
    \/ \E c \in MainGuesses : MainGuessCall(c[1], c[2], c[3]) /\ UNCHANGED inflight
    \/ \E c \in McpSearchCalls : NovaShardSearchCall(c[1], c[2]) /\ UNCHANGED inflight
    \/ \E c \in MainSearchCalls : MainSearch(c[1], c[2], c[3]) /\ UNCHANGED inflight

SpecSelect == InitSelect /\ [][NextSelect]_vars

(* ------------------------- every operation ---------------------------- *)

\* the nova_shard_interact calls made: <<shard_ids, message, auto_select>>
McpInteracts ==
    {<<<<>>, <<"zzz">>, TRUE>>, <<<<>>, TenWords, TRUE>>, <<<<>>, <<"memory">>, TRUE>>,
     <<<<>>, <<"memory">>, FALSE>>, <<<<"core_reflection", "ghost">>, <<"zzz">>, TRUE>>}

\* the POST /interact calls made: <<shard_ids, user_message, auto_select_shards,
\* query embedding, completion, auto_generate_missing_shards>>
MainInteracts ==
    {<<<<>>, <<"zzz">>, FALSE, <<>>, [ok |-> TRUE, ai |-> "reply"], FALSE>>,
     <<<<>>, TenWords, FALSE, <<>>, [ok |-> FALSE], FALSE>>,
     <<<<>>, <<"zzz">>, FALSE, <<1, 0>>, [ok |-> TRUE, ai |-> "see [SHARD: ghost]"], TRUE>>,
     <<<<>>, <<"memory">>, FALSE, <<>>, [ok |-> TRUE, ai |-> "reply"], FALSE>>,
     <<<<"core_reflection">>, <<"zzz">>, TRUE, <<>>, [ok |-> TRUE, ai |-> "reply"], FALSE>>,
     <<<<"ideas_design", "ghost">>, <<"memory">>, FALSE, <<>>,
       [ok |-> TRUE, ai |-> "reply"], FALSE>>}

\* the merge calls made: <<shard_ids, archive_originals>>
MergeCalls ==
    {<<<<"core_reflection", "ideas_design">>, TRUE>>,
     <<<<"core_reflection", "ideas_design">>, FALSE>>,
     <<<<"core_reflection", "ghost">>, TRUE>>}

AllStates ==
    { <<StoreAB, FreshIndex(StoreAB)>>,
      <<StoreSingle, IndexMissing>>,
      <<DedupLegacy, IndexCorrupt>> }

InitAll ==
    /\ \E st \in AllStates : files = st[1] /\ index = st[2]
    /\ now = StartTime
    /\ ret = [op |-> "start"]
    /\ writes = 0
    /\ inflight = <<>>

NextAll ==
    \/ Tick /\ UNCHANGED inflight
    \/ UpdateIndex /\ UNCHANGED inflight
    \/ NovaShardList /\ UNCHANGED inflight
    \/ NovaShardSearchCall(<<"memory">>, 1) /\ UNCHANGED inflight
    \/ MainSearch(Words3, 2, <<1, 0>>) /\ UNCHANGED inflight
    \/ NovaShardCreate(<<"Memory", "design">>, "reflection", "Core", "hello") /\ UNCHANGED inflight
    \/ \E id \in {"core_reflection", "ghost"} : NovaShardUpdate(id, "note", "reply") /\ UNCHANGED inflight
    \/ \E id \in {"ideas_design", "ghost"} : NovaShardArchive(id) /\ UNCHANGED inflight
    \/ \E c \in MergeCalls : MergeCall(c[1], c[2]) /\ UNCHANGED inflight
    \/ \E c \in McpInteracts : NovaShardInteract(c[1], c[2], c[3]) /\ UNCHANGED inflight
    \/ \E c \in MainInteracts : MainInteract(c[1], c[2], c[3], c[4], c[5], c[6]) /\ UNCHANGED inflight
    \/ \E dry_run \in BOOLEAN : DedupMain(dry_run) /\ UNCHANGED inflight

SpecAll == InitAll /\ [][NextAll]_vars

(* ----------------------- claims on the relevance engine --------------- *)

AutoSelected == ret.op = "auto_select" /\ ret.status = "ok"

\* the score guess_relevant_shards gives an entry, as GuessNum / GuessDen: the
\* token overlap over the message's token count in nova_server, the rounded
\* search score in main
GuessNum(call, entry, fs) ==
    IF call.impl = "mcp" THEN Overlap(call.message, Searchable(entry))
    ELSE IF call.qemb # <<>> /\ ShardEmbedding(fs, entry) # <<>>
    THEN cosine_similarity(call.qemb, ShardEmbedding(fs, entry))
    ELSE TokenScore(call.message, Searchable(entry))

GuessDen(call) ==
    IF call.impl = "mcp" THEN Max(Cardinality(Tokens(call.message)), 1) ELSE ScoreScale

EntryOf(entries, id) == CHOOSE e \in Range(entries) : e.shard_id = id

\* the non-archived entries whose score is strictly above the floor
Candidates(call, entries, fs) ==
    {e \in Range(entries) :
        /\ ~IsArchivedEntry(e)
        /\ FloorDen * GuessNum(call, e, fs) > FloorNum * GuessDen(call)}

\* C15: guess_relevant_shards of either implementation returns at most top_n ids,
\* each the id of a non-archived entry of the index whose score is strictly
\* above 0.1, in non-increasing score order; with no entry above the floor it
\* returns the empty list.
C15_AutoSelectAboveFloor ==
    AutoSelected =>
        LET ids == ret.ids
            es  == index.entries
        IN  /\ Len(ids) <= ret.top_n
            /\ \A i \in DOMAIN ids :
                  \E e \in Candidates(ret, es, files) : e.shard_id = ids[i]
            /\ \A i, j \in DOMAIN ids :
                  i < j => GuessNum(ret, EntryOf(es, ids[i]), files)
                           >= GuessNum(ret, EntryOf(es, ids[j]), files)
            /\ (Candidates(ret, es, files) = {} => ids = <<>>)

\* a call that returned an id while an entry scoring exactly 0.1 was left out
C15_Witness ==
    /\ AutoSelected
    /\ ret.ids # <<>>
    /\ \E e \in Range(index.entries) :
          /\ ~IsArchivedEntry(e)
          /\ FloorDen * GuessNum(ret, e, files) = FloorNum * GuessDen(ret)
          /\ e.shard_id \notin Range(ret.ids)

\* |Q \cap S| for the five fields of an entry, and with the shard id as a
\* sixth field
Shared5(query, entry) ==
    Cardinality(Tokens(query) \cap Tokens(Searchable(entry)))

Shared6(query, entry) ==
    Cardinality(Tokens(query) \cap (Tokens(Searchable(entry)) \cup {Lower(entry.shard_id)}))

QueryLen(query) == Max(Cardinality(Tokens(query)), 1)

\* the results of a search that were scored by token overlap
OverlapScored(call) ==
    {i \in DOMAIN call.results :
        call.impl = "mcp" \/ call.results[i].method = "fuzzy"}

\* C17 as stated: every token-overlap score a search reports for an entry is
\* exactly |Q \cap S| / max(|Q|, 1) with S the tokens of the entry's five
\* fields (score / ScoreScale = shared / |Q|).
C17_ScoreIsFiveFieldRatio ==
    SearchReturned =>
        \A i \in OverlapScored(ret) :
            LET r == ret.results[i]
                e == EntryOf(index.entries, r.shard_id)
            IN  r.score * QueryLen(ret.query) = ScoreScale * Shared5(ret.query, e)

\* C17: every token-overlap score a search reports is |Q \cap S| / max(|Q|, 1)
\* rounded to four decimals, where S is the token set of the entry's five fields
\* in main.py and of the five fields and the shard id in nova_shard_search; it
\* lies in [0, 1] and is 0 exactly when Q and S share no token, and
\* nova_shard_search reports every non-archived entry sharing a token when top_n
\* allows. Auto-select by token overlap selects, up to top_n, exactly the
\* non-archived entries with |Q \cap S| / max(|Q|, 1) > 0.1 for S of the five
\* fields.
C17_ScoreIsRoundedRatio ==
    /\ SearchReturned =>
          /\ \A i \in OverlapScored(ret) :
                LET r      == ret.results[i]
                    e      == EntryOf(index.entries, r.shard_id)
                    shared == IF ret.impl = "mcp" THEN Shared6(ret.query, e)
                              ELSE Shared5(ret.query, e)
                    diff   == r.score * QueryLen(ret.query) - ScoreScale * shared
                IN  /\ 2 * diff <= QueryLen(ret.query)
                    /\ 2 * diff > 0 - QueryLen(ret.query)
                    /\ 0 <= r.score /\ r.score <= ScoreScale
                    /\ r.score = 0 <=> shared = 0
                    /\ ret.impl = "mcp" => shared > 0
          /\ (ret.impl = "mcp" /\ Len(ret.results) < ret.top_n) =>
                \A e \in Range(index.entries) :
                    (~IsArchivedEntry(e) /\ Shared6(ret.query, e) > 0)
                    => \E i \in DOMAIN ret.results : ret.results[i].shard_id = e.shard_id
    /\ (AutoSelected /\ ret.qemb = <<>> /\ Len(ret.ids) < ret.top_n) =>
          Range(ret.ids) =
             {e.shard_id : e \in
                {x \in Range(index.entries) :
                    /\ ~IsArchivedEntry(x)
                    /\ FloorDen * Shared5(ret.message, x)
                       > FloorNum * QueryLen(ret.message)}}

\* nova_shard_search reported a score that counts the shard id as a shared token
\* and a score that is a rounded ratio
C17_Witness ==
    /\ SearchReturned
    /\ ret.impl = "mcp"
    /\ \E i \in DOMAIN ret.results :
          LET e == EntryOf(index.entries, ret.results[i].shard_id)
          IN  Shared6(ret.query, e) > Shared5(ret.query, e)
    /\ \E i \in DOMAIN ret.results :
          LET e == EntryOf(index.entries, ret.results[i].shard_id)
          IN  ret.results[i].score * QueryLen(ret.query)
              # ScoreScale * Shared6(ret.query, e)

\* the score a search gives an entry, in units of 1 / ScoreScale
SearchScore(call, entry, fs) ==
    IF call.impl = "mcp"
    THEN RoundedRatio(Shared6(call.query, entry), QueryLen(call.query))
    ELSE IF call.qemb # <<>> /\ ShardEmbedding(fs, entry) # <<>>
    THEN cosine_similarity(call.qemb, ShardEmbedding(fs, entry))
    ELSE RoundedRatio(Shared5(call.query, entry), QueryLen(call.query))

\* the position of a shard id in the iteration order of the index
IndexPos(entries, id) == CHOOSE i \in DOMAIN entries : entries[i].shard_id = id

\* at most top_n results, by non-increasing score, equal scores in index order,
\* and nothing that was left out scores higher than a result
Ranked(call, entries, fs) ==
    LET rs == call.results
    IN  /\ Len(rs) <= call.top_n
        /\ \A i, j \in DOMAIN rs :
              i < j =>
                 \/ rs[i].score > rs[j].score
                 \/ /\ rs[i].score = rs[j].score
                    /\ IndexPos(entries, rs[i].shard_id) < IndexPos(entries, rs[j].shard_id)
        /\ \A e \in Range(entries) :
              (/\ ~IsArchivedEntry(e)
               /\ \A i \in DOMAIN rs : rs[i].shard_id # e.shard_id)
              => \A i \in DOMAIN rs : rs[i].score >= SearchScore(call, e, fs)

\* C18 as stated: a search with top_n below 1 is rejected, and a search that is
\* served returns at most top_n results, ranked by non-increasing score with
\* equal scores in index order, leaving out no higher-scoring candidate.
C18_SearchRanksTopN ==
    (ret.op = "search" /\ ret.status \in {"ok", "rejected"}) =>
        IF ret.top_n < MinTopN THEN ret.status = "rejected"
        ELSE ret.status = "ok" => Ranked(ret, index.entries, files)

\* C18 for what the code does: nova_shard_search rejects a top_n outside 1..20,
\* and every search with top_n of at least 1 that is served is ranked as stated.
C18_ValidSearchRanksTopN ==
    (ret.op = "search" /\ ret.status \in {"ok", "rejected"}) =>
        /\ ret.impl = "mcp" => (ret.status = "rejected" <=> ~ValidTopN(ret.top_n))
        /\ (ret.status = "ok" /\ ret.top_n >= MinTopN) =>
              Ranked(ret, index.entries, files)

\* a search cut to top_n between two candidates of equal score
C18_Witness ==
    /\ SearchReturned
    /\ ret.top_n >= MinTopN
    /\ Len(ret.results) = ret.top_n
    /\ \E e \in Range(index.entries) :
          /\ ~IsArchivedEntry(e)
          /\ \A i \in DOMAIN ret.results : ret.results[i].shard_id # e.shard_id
          /\ SearchScore(ret, e, files) = ret.results[Len(ret.results)].score

(* --------------------------- claims on interact ----------------------- *)

\* the index an interact call scores: load_index(), rebuilt when empty
Consulted == LoadOrRebuild(index, files, now).loaded

UsageCount(shard) == Get(Get(shard, "meta_tags", EmptyDict), "usage_count", 0)

HistoryOf(shard) == Get(shard, "conversation_history", <<>>)

\* C16 as stated: an interact call without shard ids, when no entry of the index
\* clears the relevance floor, returns the no-match outcome and leaves every
\* shard file as it was, creating none.
C16_NoMatchChangesNothing ==
    [][(/\ ret'.op = "interact"
        /\ now' = now
        /\ ret'.given = <<>>
        /\ Candidates(ret', Consulted, files) = {})
       => (ret'.status = "no_shards_found" /\ files' = files)]_vars

\* C16: in that case nova_shard_interact returns no_shards_found and leaves every
\* shard file as it was; POST /interact of main.py loads the fallback shard
\* nova_general_memory instead: it creates the placeholder when the file is
\* absent, counts one use of it, changes no other stored shard, and when the
\* completion succeeds reports it as the referenced shard and appends the
\* exchange to its history.
C16_NoMatchOrFallback ==
    [][(/\ ret'.op = "interact"
        /\ now' = now
        /\ ret'.given = <<>>
        /\ Candidates(ret', Consulted, files) = {})
       => IF ret'.impl = "mcp"
          THEN ret'.status = "no_shards_found" /\ files' = files
          ELSE LET id  == FALLBACK_SHARD_ID
                   old == IF id \in DOMAIN files THEN files[id]
                          ELSE [conversation_history |-> <<>>]
               IN  /\ ret'.status \in {"ok", "llm_error"}
                   /\ id \in DOMAIN files'
                   /\ \A st \in DOMAIN files \ {id} :
                         st \in DOMAIN files' /\ files'[st] = files[st]
                   /\ UsageCount(files'[id]) = UsageCount(old) + 1
                   /\ files'[id].meta_tags.last_used = now
                   /\ ret'.status = "llm_error" =>
                         HistoryOf(files'[id]) = HistoryOf(old)
                   /\ ret'.status = "ok" =>
                         /\ ret'.referenced = <<id>>
                         /\ LET after == HistoryOf(files'[id])
                            IN  /\ Len(after) = Len(HistoryOf(old)) + 1
                                /\ SubSeq(after, 1, Len(after) - 1) = HistoryOf(old)
                                /\ after[Len(after)].timestamp = now
                                /\ after[Len(after)].user = Text(ret'.message)]_vars

\* POST /interact found no candidate and answered from the fallback shard, which
\* it had to create
C16_Witness ==
    /\ ret.op = "interact"
    /\ ret.impl = "main"
    /\ ret.given = <<>>
    /\ ret.status = "ok"
    /\ ret.referenced = <<FALLBACK_SHARD_ID>>
    /\ FALLBACK_SHARD_ID \in DOMAIN files
    /\ UsageCount(files[FALLBACK_SHARD_ID]) = 1
    /\ Len(HistoryOf(files[FALLBACK_SHARD_ID])) = 1

(* ------------------------ claims on the whole store ------------------- *)

\* C19: whatever operation runs, a stored shard file disappears only in a dedup
\* run that is not a dry run, and only when that run reported it as the
\* duplicate of a shard that is still stored afterwards.
C19_OnlyDedupDeletes ==
    [][\A st \in DOMAIN files \ DOMAIN files' :
          /\ ret'.op = "dedup"
          /\ ~ret'.dry_run
          /\ \E i \in DOMAIN ret'.duplicates :
                /\ ret'.duplicates[i][1] = st
                /\ ret'.duplicates[i][2] \in DOMAIN files']_vars

\* a dedup run that removed the duplicate it reported and kept the original
C19_Witness ==
    /\ ret.op = "dedup"
    /\ ~ret.dry_run
    /\ ret.duplicates # <<>>
    /\ \A i \in DOMAIN ret.duplicates :
          /\ ret.duplicates[i][1] \notin DOMAIN files
          /\ ret.duplicates[i][2] \in DOMAIN files

\* field k is absent from both records or equal in both
SameField(old, new, k) ==
    /\ k \in DOMAIN old <=> k \in DOMAIN new
    /\ k \in DOMAIN old => old[k] = new[k]

IsPrefix(h, g) == Len(h) <= Len(g) /\ SubSeq(g, 1, Len(h)) = h

\* C20: whatever operation runs, a shard that stays stored keeps its shard_id and
\* its guiding_question, and its history before the operation is a prefix of
\* its history after it.
C20_HistoryAppendOnly ==
    [][\A st \in DOMAIN files \cap DOMAIN files' :
          ~IsCorrupt(files[st]) =>
             /\ ~IsCorrupt(files'[st])
             /\ SameField(files[st], files'[st], "shard_id")
             /\ SameField(files[st], files'[st], "guiding_question")
             /\ IsPrefix(HistoryOf(files[st]), HistoryOf(files'[st]))]_vars

\* POST /interact appended a turn to a shard that already had one
C20_Witness ==
    /\ ret.op = "interact"
    /\ ret.impl = "main"
    /\ ret.status = "ok"
    /\ Len(HistoryOf(files[ret.referenced[1]])) >= 2

(* ------------------- classify_tags on any shard record ---------------- *)

\* classify_tags on whatever json.load returned: [raised |-> an exception
\* escaped, tags |-> the list returned]. meta.get and context.get raise
\* AttributeError on a value that is not an object, usage_count > 10 raises
\* TypeError on a value that is not a number; only the timestamp parse is
\* inside a try block.
classify_tags_any(shard, t) ==
    LET meta == Get(shard, "meta_tags", EmptyDict)
        ctx  == Get(shard, "context", EmptyDict)
    IN  IF ~IsMapping(meta) THEN [raised |-> TRUE, tags |-> <<>>]
        ELSE IF Get(meta, "usage_count", 0) = BadCount
        THEN [raised |-> TRUE, tags |-> <<>>]
        ELSE IF ~IsMapping(ctx) THEN [raised |-> TRUE, tags |-> <<>>]
        ELSE [raised |-> FALSE, tags |-> classify_tags(shard, t)]

\* classify_tags(shard) on the stored record
ClassifyTags ==
    /\ \E st \in DOMAIN files :
          /\ ~IsCorrupt(files[st])
          /\ ret' = [op |-> "classify_tags", shard |-> files[st], at |-> now]
                    @@ classify_tags_any(files[st], now)
    /\ UNCHANGED <<files, index, now, writes>>

\* shard records with usage metadata of every shape
TagRecords ==
    LET times   == {<<>>} \cup {[last_used |-> u] :
                       u \in {BadTime, WrongTime, 1, StartTime - RecentDays,
                              StartTime - RecentDays + 1, StartTime}}
        counts  == {<<>>} \cup {[usage_count |-> c] :
                       c \in {FrequentUses, FrequentUses + 1, BadCount}}
        metas   == {m[1] @@ m[2] @@ [intent |-> "log"] : m \in times \X counts}
                   \cup {NotAMapping}
        ctxs    == {<<>>, [context |-> NotAMapping],
                    [context |-> [summary |-> <<"memory">>, embedding |-> <<1, 0>>]]}
    IN  {[guiding_question |-> <<"memory">>, meta_tags |-> m] @@ c :
            m \in metas, c \in ctxs}

InitTags ==
    /\ \E shard \in TagRecords : files = ("core_reflection" :> shard)
    /\ index = IndexMissing
    /\ now = StartTime
    /\ ret = [op |-> "start"]
    /\ writes = 0
    /\ inflight = <<>>

NextTags ==
    \/ Tick /\ UNCHANGED inflight
    \/ ClassifyTags /\ UNCHANGED inflight

SpecTags == InitTags /\ [][NextTags]_vars

\* the record's last_used is missing, does not parse or is not a string
NoUsableTime(shard) ==
    LET meta == Get(shard, "meta_tags", EmptyDict)
    IN  IsMapping(meta) => Get(meta, "last_used", BadTime) \in {BadTime, WrongTime}

\* the record's usage metadata has the types the classifier computes with
WellTyped(shard) ==
    /\ IsMapping(Get(shard, "meta_tags", EmptyDict))
    /\ Get(Get(shard, "meta_tags", EmptyDict), "usage_count", 0) # BadCount
    /\ IsMapping(Get(shard, "context", EmptyDict))

\* C22 as stated: classify_tags raises for no shard record, and a last_used that
\* is missing, unparsable or of the wrong type yields neither "recent" nor
\* "stale".
C22_ClassifyNeverRaises ==
    ret.op = "classify_tags" =>
        /\ ~ret.raised
        /\ NoUsableTime(ret.shard) =>
              Range(ret.tags) \cap {"recent", "stale"} = {}

\* C22 for what the code does: classify_tags returns tags when meta_tags and
\* context are objects (or absent) and usage_count is a number, and then a
\* last_used that is missing, unparsable or of the wrong type yields neither
\* "recent" nor "stale"; for any other record it raises.
C22_ClassifyRaisesOnlyIllTyped ==
    ret.op = "classify_tags" =>
        /\ ret.raised <=> ~WellTyped(ret.shard)
        /\ NoUsableTime(ret.shard) =>
              Range(ret.tags) \cap {"recent", "stale"} = {}

\* classify_tags returned tags for a record whose last_used is not a string
C22_Witness ==
    /\ ret.op = "classify_tags"
    /\ ~ret.raised
    /\ "meta_tags" \in DOMAIN ret.shard
    /\ Get(ret.shard.meta_tags, "last_used", 0) = WrongTime
    /\ "frequently_used" \in Range(ret.tags)

(* ---------------------- claims on failures of interact ---------------- *)

\* C23 as stated: when the completion call of POST /interact fails, the call
\* returns an error and the shard store is what it was before the call.
C23_LlmFailureChangesNothing ==
    [][(ret'.op = "interact" /\ now' = now /\ ret'.status = "llm_error")
       => files' = files]_vars

\* C23 for what the code does: when the completion call fails, no history entry
\* was appended and no shard but the fallback placeholder was created, but every
\* shard the call loaded has already had its usage counted and its last_used
\* set.
C23_LlmFailureKeepsUsageUpdates ==
    [][(ret'.op = "interact" /\ now' = now /\ ret'.status = "llm_error")
       => /\ DOMAIN files \subseteq DOMAIN files'
          /\ DOMAIN files' \ DOMAIN files \subseteq {FALLBACK_SHARD_ID}
          /\ \A st \in DOMAIN files :
                /\ HistoryOf(files'[st]) = HistoryOf(files[st])
                /\ st \notin Range(ret'.referenced) => files'[st] = files[st]
          /\ \A i \in DOMAIN ret'.referenced :
                LET st == ret'.referenced[i]
                IN  /\ st \in DOMAIN files'
                    /\ files'[st].meta_tags.last_used = now
                    /\ UsageCount(files'[st]) =
                          (IF st \in DOMAIN files THEN UsageCount(files[st]) ELSE 0) + 1]_vars

\* the completion failed after the call created the fallback shard and counted
\* a use of it
C23_Witness ==
    /\ ret.op = "interact"
    /\ ret.status = "llm_error"
    /\ ret.referenced = <<FALLBACK_SHARD_ID>>
    /\ FALLBACK_SHARD_ID \in DOMAIN files
    /\ UsageCount(files[FALLBACK_SHARD_ID]) = 1
    /\ HistoryOf(files[FALLBACK_SHARD_ID]) = <<>>

(* ------------------- context_extractor.process_shards ----------------- *)

\* what the two external calls do for one shard: generate_context returns None
\* ("gpt_failed"), an object without a summary ("no_summary"), JSON that is not
\* an object ("not_an_object"), or a context whose embedding call then fails
\* ("embed_failed") or succeeds ("enriched")
EnrichOutcomes == {"gpt_failed", "no_summary", "not_an_object", "embed_failed", "enriched"}

\* shard["context"] as process_shards assigns it; get_embedding returning None
\* is the empty embedding, which every reader treats alike
WithContext(shard, outcome, t) ==
    DictSet(shard, "context",
            [summary             |-> <<"core", "summary">>,
             topics              |-> <<"memory">>,
             conversation_type   |-> "design",
             embedding           |-> IF outcome = "enriched" THEN <<1, 0>> ELSE <<>>,
             last_context_update |-> t])

\* the shards process_shards sends to the summarizer
Attempted(fs, stem, force) ==
    /\ ~IsCorrupt(fs[stem])
    /\ force \/ Get(Get(fs[stem], "context", EmptyDict), "embedding", <<>>) = <<>>

\* the loop of process_shards: [fs |-> SHARD_DIR after, raised |-> context.get
\* raised on a context that is not an object]
RECURSIVE EnrichFrom(_, _, _, _, _)
EnrichFrom(names, fs, force, outcome, t) ==
    IF names = <<>> THEN [fs |-> fs, raised |-> FALSE]
    ELSE LET stem == Head(names)
             rest == Tail(names)
         IN  IF ~Attempted(fs, stem, force) THEN EnrichFrom(rest, fs, force, outcome, t)
             ELSE CASE outcome[stem] \in {"gpt_failed", "no_summary"} ->
                         EnrichFrom(rest, fs, force, outcome, t)
                    [] outcome[stem] = "not_an_object" -> [fs |-> fs, raised |-> TRUE]
                    [] OTHER ->
                         EnrichFrom(rest,
                                    save_shard(fs, stem,
                                               WithContext(fs[stem], outcome[stem], t)),
                                    force, outcome, t)

\* python context_extractor.py [--force]
ProcessShards(force, outcome) ==
    LET done == EnrichFrom(ListDir(files), files, force, outcome, now)
    IN  /\ files' = done.fs
        /\ index' = IF done.raised THEN index
                    ELSE update_index(index, done.fs, now).saved
        /\ ret' = [op |-> "enrich", force |-> force, outcome |-> outcome,
                   status |-> IF done.raised THEN "exception" ELSE "ok"]
        /\ UNCHANGED <<now, writes>>

\* the outcomes of one batch, by position in the sorted directory listing
EnrichPlans ==
    { <<"enriched", "enriched", "enriched">>,
      <<"gpt_failed", "enriched", "embed_failed">>,
      <<"enriched", "gpt_failed", "no_summary">>,
      <<"embed_failed", "enriched", "gpt_failed">>,
      <<"no_summary", "embed_failed", "enriched">>,
      <<"enriched", "not_an_object", "enriched">>,
      <<"not_an_object", "enriched", "enriched">> }

OutcomeOf(fs, plan) ==
    [st \in DOMAIN fs |-> plan[CHOOSE i \in 1..Len(ListDir(fs)) : ListDir(fs)[i] = st]]

EnrichStates ==
    { <<StoreAB, FreshIndex(StoreAB)>>,
      <<StoreBroken, IndexLegacy>>,
      <<StoreArchived, IndexCorrupt>>,
      <<StoreThree, IndexMissing>> }

InitEnrich ==
    /\ \E st \in EnrichStates : files = st[1] /\ index = st[2]
    /\ now = StartTime
    /\ ret = [op |-> "start"]
    /\ writes = 0
    /\ inflight = <<>>

NextEnrich ==
    \/ Tick /\ UNCHANGED inflight
    \/ UpdateIndex /\ UNCHANGED inflight
    \/ MainSearch(<<"memory">>, 2, <<1, 0>>) /\ UNCHANGED inflight
    \/ \E force \in BOOLEAN, plan \in EnrichPlans :
          ProcessShards(force, OutcomeOf(files, plan)) /\ UNCHANGED inflight

SpecEnrich == InitEnrich /\ [][NextEnrich]_vars

(* ------------------------- claims on enrichment ----------------------- *)

Succeeded(outcome) == outcome = "enriched"

\* C24 as stated: in a bulk enrichment every attempted shard whose summarizer or
\* embedder failed keeps its stored content, every attempted shard whose calls
\* succeeded is enriched, and the index is rebuilt from the store at the end.
C24_FailedShardLeftUnenriched ==
    [][(ret'.op = "enrich" /\ now' = now) =>
          /\ \A st \in DOMAIN files :
                Attempted(files, st, ret'.force) =>
                   IF Succeeded(ret'.outcome[st])
                   THEN files'[st] = WithContext(files[st], "enriched", now)
                   ELSE files'[st] = files[st]
          /\ index' = IndexDict(build_index(files', now).entries)]_vars

\* C24 for what the code does: a shard whose summarizer fails or returns no
\* summary keeps its stored content, a shard whose embedder fails is stored
\* with the summary and topics and an empty embedding, and when no summarizer
\* reply is a non-object every attempted shard with both calls succeeding is
\* enriched and the index is rebuilt; a non-object reply aborts the batch
\* without the rebuild.
C24_EmbedderFailureStoresSummary ==
    [][(ret'.op = "enrich" /\ now' = now) =>
          /\ DOMAIN files' = DOMAIN files
          /\ IF \E st \in DOMAIN files :
                   Attempted(files, st, ret'.force) /\ ret'.outcome[st] = "not_an_object"
             THEN /\ ret'.status = "exception"
                  /\ index' = index
                  /\ \A st \in DOMAIN files :
                        \/ files'[st] = files[st]
                        \/ /\ Attempted(files, st, ret'.force)
                           /\ ret'.outcome[st] \in {"embed_failed", "enriched"}
                           /\ files'[st] = WithContext(files[st], ret'.outcome[st], now)
             ELSE /\ ret'.status = "ok"
                  /\ \A st \in DOMAIN files :
                        files'[st] =
                           IF /\ Attempted(files, st, ret'.force)
                              /\ ret'.outcome[st] \in {"embed_failed", "enriched"}
                           THEN WithContext(files[st], ret'.outcome[st], now)
                           ELSE files[st]
                  /\ index' = IndexDict(build_index(files', now).entries)]_vars

\* a batch in which one shard's summarizer failed and another shard was enriched
C24_Witness ==
    /\ ret.op = "enrich"
    /\ ret.status = "ok"
    /\ \E a, b \in DOMAIN files :
          /\ ret.outcome[a] = "gpt_failed"
          /\ "context" \notin DOMAIN files[a]
          /\ ret.outcome[b] = "enriched"
          /\ "context" \in DOMAIN files[b]
          /\ Get(files[b].context, "last_context_update", NoTimestamp) = now
          /\ \E i \in DOMAIN index.entries :
                /\ index.entries[i].shard_id = b
                /\ "enriched" \in Range(index.entries[i].tags)

(* ------------------------ shard_index.load_index ---------------------- *)

\* load_index() called on its own
LoadIndex ==
    LET got == load_index(index, files, now)
    IN  /\ index' = got.saved
        /\ ret' = [op |-> "load_index", was |-> index, loaded |-> got.loaded]
        /\ UNCHANGED <<files, now, writes>>

\* a legacy list naming a file that is unreadable and a file that is gone
LegacyNames == <<"core_reflection", "ghost">>

IndexStates ==
    { <<fs, idx>> : fs \in {StoreAB, StoreBroken, StoreArchived, StoreThree},
                    idx \in {IndexLegacyOf(LegacyNames), IndexLegacy, IndexMissing,
                             IndexCorrupt, FreshIndex(StoreSingle)} }

InitIndex ==
    /\ \E st \in IndexStates : files = st[1] /\ index = st[2]
    /\ now = StartTime
    /\ ret = [op |-> "start"]
    /\ writes = 0
    /\ inflight = <<>>

NextIndex ==
    \/ Tick /\ UNCHANGED inflight
    \/ LoadIndex /\ UNCHANGED inflight
    \/ NovaShardSearch(<<"memory">>, 2) /\ UNCHANGED inflight
    \/ MainSearch(<<"Design", "core", "ideas_design">>, 2, <<1, 0>>) /\ UNCHANGED inflight
    \/ \E id \in {"core_reflection", "ideas_design"} : NovaShardArchive(id) /\ UNCHANGED inflight

SpecIndex == InitIndex /\ [][NextIndex]_vars

(* ---------------------- claims on loading the index ------------------- *)

Unusable(idx) == idx.kind \in {"missing", "corrupt"}

\* C25: load_index on a legacy index returns exactly the index built from the
\* current shard files and persists it, with nothing of the legacy list in it;
\* on a missing or unparsable index file it returns the empty index and leaves
\* the file alone, and a search that finds either kind of index searches the
\* index built from the shard files and persists that one.
C25_LegacyIndexDiscarded ==
    [][/\ (ret'.op = "load_index" /\ now' = now) =>
            /\ index.kind = "legacy" =>
                  /\ ret'.loaded = build_index(files, now).entries
                  /\ index' = IndexDict(build_index(files, now).entries)
            /\ Unusable(index) => ret'.loaded = <<>> /\ index' = index
       /\ (/\ ret'.op = "search"
           /\ now' = now
           /\ index.kind = "legacy" \/ Unusable(index)) =>
            /\ ret'.status = "ok"
            /\ index' = IndexDict(build_index(files, now).entries)
            /\ ret'.total_searched = Len(build_index(files, now).entries)
            /\ \A i \in DOMAIN ret'.results :
                  \E j \in DOMAIN index'.entries :
                     index'.entries[j].shard_id = ret'.results[i].shard_id]_vars

\* load_index has replaced a legacy list naming an unreadable and a missing file
\* by a non-empty index that has an entry for neither
C25_Witness ==
    /\ ret.op = "load_index"
    /\ ret.was.kind = "legacy"
    /\ "shards" \in DOMAIN ret.was
    /\ ret.loaded # <<>>
    /\ index = IndexDict(ret.loaded)
    /\ \A i \in DOMAIN ret.loaded :
          ret.loaded[i].shard_id \notin Range(ret.was.shards)

(* ---------------------- claims on read-only tools --------------------- *)

\* the step is a call of a tool annotated readOnlyHint and idempotentHint
ReadOnlyCall(r) ==
    \/ r.op = "interact" /\ r.impl = "mcp"
    \/ r.op = "search" /\ r.impl = "mcp"
    \/ r.op = "list"

\* the two records are equal but for meta_tags.usage_count and meta_tags.last_used
SameButUsage(old, new) ==
    /\ DOMAIN new = DOMAIN old \cup {"meta_tags"}
    /\ \A k \in DOMAIN old \ {"meta_tags"} : new[k] = old[k]
    /\ LET m == Get(old, "meta_tags", EmptyDict)
           n == new.meta_tags
       IN  /\ DOMAIN n = DOMAIN m \cup {"usage_count", "last_used"}
           /\ \A k \in DOMAIN m \ {"usage_count", "last_used"} : n[k] = m[k]

\* C26 as stated: a call of nova_shard_interact, nova_shard_search or
\* nova_shard_list leaves the shard store exactly as it was.
C26_ReadOnlyToolsKeepStore ==
    [][(ReadOnlyCall(ret') /\ now' = now) => files' = files]_vars

\* C26 for what the code does: nova_shard_search and nova_shard_list leave the
\* shard store as it was; nova_shard_interact rewrites every shard it loads with
\* usage_count one higher and last_used set to the time of the call, and
\* leaves every other shard, and every other field of a loaded shard, alone.
C26_InteractRewritesUsage ==
    [][(ReadOnlyCall(ret') /\ now' = now) =>
          IF ret'.op = "interact" /\ ret'.status = "loaded"
          THEN /\ DOMAIN files' = DOMAIN files
               /\ \A st \in DOMAIN files :
                     IF st \in Range(ret'.shards)
                     THEN /\ SameButUsage(files[st], files'[st])
                          /\ UsageCount(files'[st]) > UsageCount(files[st])
                          /\ files'[st].meta_tags.last_used = now
                     ELSE files'[st] = files[st]
          ELSE files' = files]_vars

\* nova_shard_interact has loaded a shard and stored it with a new usage count
C26_Witness ==
    /\ ret.op = "interact"
    /\ ret.impl = "mcp"
    /\ ret.status = "loaded"
    /\ \E st \in Range(ret.shards) :
          /\ st \in DOMAIN files
          /\ files[st].meta_tags.last_used = now
          /\ UsageCount(files[st]) > 1

(* ------------------- fragments returned by interact ------------------- *)

MaxFragments == 3

ShardLong ==
    \* three turns, one of them without a reply
    [shard_id |-> "core_reflection",
     guiding_question |-> <<"memory">>,
     conversation_history |-> <<Entry(5, "q0", ""), Entry(9, "q1", "a1"),
                                Entry(12, "q2", "a2")>>,
     meta_tags |-> [intent |-> "reflection", theme |-> "Core",
                    usage_count |-> 2, last_used |-> 12]]

StoreLong == ("core_reflection" :> ShardLong) @@ ("ideas_design" :> ShardB2)

FragmentStates ==
    { <<StoreLong, FreshIndex(StoreLong)>>,
      <<StoreAB, FreshIndex(StoreAB)>>,
      <<StoreImported, IndexMissing>> }

InitFragments ==
    /\ \E st \in FragmentStates : files = st[1] /\ index = st[2]
    /\ now = StartTime
    /\ ret = [op |-> "start"]
    /\ writes = 0
    /\ inflight = <<>>

NextFragments ==
    \/ Tick /\ UNCHANGED inflight
    \/ \E id \in DOMAIN files : NovaShardUpdate(id, "note", "reply") /\ UNCHANGED inflight
    \/ \E max \in 0..MaxFragments :
          \/ NovaShardInteractMax(max, <<"core_reflection", "ideas_design">>,
                                  <<"zzz">>, FALSE) /\ UNCHANGED inflight
          \/ NovaShardInteractMax(max, <<>>, <<"memory">>, TRUE) /\ UNCHANGED inflight

SpecFragments == InitFragments /\ [][NextFragments]_vars

IsSuffix(t, s) == Len(t) <= Len(s) /\ SubSeq(s, Len(s) - Len(t) + 1, Len(s)) = t

InteractLoaded(r) == r.op = "interact" /\ r.impl = "mcp" /\ r.status = "loaded"

\* C27 as stated: for every shard loaded by interact and every configured
\* maximum M >= 0, at most M fragments are returned for the shard, and they are
\* the last fragments of the shard's fragment sequence, in history order.
C27_AtMostMaxFragments ==
    InteractLoaded(ret) =>
       \A i \in DOMAIN ret.shards :
          /\ Len(ret.fragments[i]) <= ret.max_fragments
          /\ IsSuffix(ret.fragments[i],
                      extract_fragments(files[ret.shards[i]], ret.shards[i]))

\* C27 for what the code does: for a maximum M >= 1 the fragments returned are
\* the last min(M, n) of the shard's n fragments in history order; for M = 0
\* the slice [-0:] returns all n of them.
C27_TailUnlessZero ==
    InteractLoaded(ret) =>
       \A i \in DOMAIN ret.shards :
          LET all == extract_fragments(files[ret.shards[i]], ret.shards[i])
              M   == ret.max_fragments
          IN  /\ IsSuffix(ret.fragments[i], all)
              /\ Len(ret.fragments[i]) =
                    IF M = 0 \/ M >= Len(all) THEN Len(all) ELSE M

\* a shard with more fragments than the maximum came back cut to its last ones
C27_Witness ==
    /\ InteractLoaded(ret)
    /\ ret.max_fragments >= 1
    /\ \E i \in DOMAIN ret.shards :
          /\ Len(extract_fragments(files[ret.shards[i]], ret.shards[i]))
                > ret.max_fragments
          /\ Len(ret.fragments[i]) = ret.max_fragments
          /\ ret.fragments[i][1].role = "NOVA"

(* ----------------------- stability of the merge sort ------------------ *)

ShardTiesA ==
    \* two entries without timestamp around a dated one
    [shard_id |-> "core_reflection",
     guiding_question |-> <<"memory">>,
     conversation_history |-> <<[user |-> "q2", ai |-> "a2"], Entry(9, "q1", "a1"),
                                [user |-> "q5", ai |-> ""]>>,
     meta_tags |-> [intent |-> "reflection", theme |-> "Core",
                    usage_count |-> 2, last_used |-> 12]]

ShardTiesB ==
    \* the same timestamp as an entry of the other shard, and one without
    [shard_id |-> "ideas_design",
     guiding_question |-> <<"design">>,
     conversation_history |-> <<Entry(9, "q3", "a3"), [user |-> "q4", ai |-> "a4"],
                                Entry(5, "q0", "")>>,
     meta_tags |-> [intent |-> "log", theme |-> "Ideas",
                    usage_count |-> 3, last_used |-> 9]]

StoreTies == ("core_reflection" :> ShardTiesA) @@ ("ideas_design" :> ShardTiesB)

MergeStates ==
    { <<StoreTies, FreshIndex(StoreTies)>>,
      <<StoreAB, IndexMissing>>,
      <<StoreImported, IndexCorrupt>> }

InitMerge ==
    /\ \E st \in MergeStates : files = st[1] /\ index = st[2]
    /\ now = StartTime
    /\ ret = [op |-> "start"]
    /\ writes = 0
    /\ inflight = <<>>

NextMerge ==
    \/ Tick /\ UNCHANGED inflight
    \/ \E id \in DOMAIN files : NovaShardUpdate(id, "note", "reply") /\ UNCHANGED inflight
    \/ \E ids \in MergeIdLists, a \in BOOLEAN : MergeCall(ids, a) /\ UNCHANGED inflight

SpecMerge == InitMerge /\ [][NextMerge]_vars

\* the entries of h whose sort key is k, in the order they have in h
WithKey(h, k) == SelectSeq(h, LAMBDA e : SortKey(e) = k)

\* C28: in the history a successful merge writes, the entries of each timestamp,
\* and the entries without timestamp, stand in the order they have in the
\* concatenation of the source histories, taken in the order the ids were given.
C28_MergeSortStable ==
    Merged =>
        LET h == files[ret.new_shard_id]["conversation_history"]
            c == ConcatHistories(files, ret.sources)
        IN  \A k \in {SortKey(c[i]) : i \in DOMAIN c} : WithKey(h, k) = WithKey(c, k)

\* a merge of two shards that share a timestamp and each hold an entry without
\* one: the second shard's entries follow the first's in both groups
C28_Witness ==
    /\ Merged
    /\ ret.sources = <<"ideas_design", "core_reflection">>
    /\ LET h == files[ret.new_shard_id]["conversation_history"]
       IN  /\ Len(WithKey(h, NoTimestamp)) = 3
           /\ WithKey(h, NoTimestamp)[1].user = "q4"
           /\ WithKey(h, NoTimestamp)[2].user = "q2"
           /\ Len(WithKey(h, 9)) = 2
           /\ WithKey(h, 9)[1].user = "q3"
           /\ WithKey(h, 9)[2].user = "q1"

(* ------------------ claims on searches after an archive --------------- *)

\* the shards a nova_shard_search returned or an auto-selecting
\* nova_shard_interact loaded
ReturnedIds(r) ==
    IF r.op = "search" /\ r.impl = "mcp" /\ r.status = "ok"
    THEN {r.results[i].shard_id : i \in DOMAIN r.results}
    ELSE IF InteractLoaded(r) /\ r.inferred THEN Range(r.shards)
    ELSE {}

\* nova_shard_archive has marked the stored record
ArchiveCompleted(fs, id) ==
    /\ id \in DOMAIN fs
    /\ ~IsCorrupt(fs[id])
    /\ "archived_at" \in DOMAIN Get(fs[id], "meta_tags", EmptyDict)
    /\ fs[id].meta_tags.intent = "archived"

\* C29 as stated: no nova_shard_search result and no shard loaded by an
\* auto-selecting nova_shard_interact is a shard that nova_shard_archive has
\* archived.
C29_ArchivedNeverReturned ==
    \A id \in ReturnedIds(ret) : ~ArchiveCompleted(files, id)

\* C29 for what the code does: an archived shard is returned or loaded only when
\* the persisted index the call read was written before the archive and still
\* holds the shard's entry without the tag archived; a call that finds no usable
\* index, or an index rebuilt since the archive, never returns the shard.
C29_ArchivedOnlyFromStaleIndex ==
    [][now' = now =>
          \A id \in ReturnedIds(ret') :
             ArchiveCompleted(files, id) =>
                /\ index.kind = "dict"
                /\ \E i \in DOMAIN index.entries :
                      /\ index.entries[i].shard_id = id
                      /\ ~IsArchivedEntry(index.entries[i])]_vars

\* a search made after an archive and a rebuild of the index: the archived shard
\* has its tag in the index and is not among the results
C29_Witness ==
    /\ ret.op = "search"
    /\ ret.impl = "mcp"
    /\ ret.status = "ok"
    /\ ret.results # <<>>
    /\ \E id \in DOMAIN files :
          /\ ArchiveCompleted(files, id)
          /\ files[id].meta_tags.archived_at >= StartTime
          /\ id \notin ReturnedIds(ret)
          /\ \E i \in DOMAIN index.entries :
                index.entries[i].shard_id = id /\ IsArchivedEntry(index.entries[i])

(* ------------------ overlapping read-modify-write calls --------------- *)

\* the processes that share SHARD_DIR: the servers of two clients, a script
Procs == {"p1", "p2"}

\* what a call does to the record it loaded before it saves it:
\*   update   nova_shard_update: append the turn, count the use
\*   interact the load loop of either interact: count the use
\*   append   POST /interact after the completion: append the turn
\*   archive  nova_shard_archive: mark the record
\*   enrich   process_shards: set the context
RaceOps == {"update", "interact", "append", "archive", "enrich"}

Modified(op, data, t) ==
    CASE op = "update" ->
            update_shard_usage(
               DictSet(data, "conversation_history",
                       Append(HistoryOf(data), Entry(t, "note", "reply"))), t)
      [] op = "interact" -> update_shard_usage(data, t)
      [] op = "append" ->
            DictSet(data, "conversation_history",
                    Append(HistoryOf(data), Entry(t, "zzz", "reply")))
      [] op = "archive" -> MarkArchived(data, t)
      [] OTHER -> WithContext(data, "enriched", t)

\* a save that stores the call's change on top of the record stored by then
SavedOnCurrent(fs, call, t) ==
    save_shard(fs, call.id, Modified(call.op, fs[call.id], t))

\* save_shard(filepath, data): the whole record the call holds replaces the file
SavedWhole(fs, call, t) ==
    save_shard(fs, call.id, Modified(call.op, call.data, t))

\* the call of process p reads the shard file: load_shard / json.load. A call
\* on a missing or unreadable file returns at once and holds no record.
BeginCall(p, op, id) ==
    LET r == load_shard(files, id)
    IN  /\ p \notin DOMAIN inflight
        /\ r.status = "ok"
        /\ writes < MaxWrites
        /\ writes' = writes + 1
        /\ inflight' = DictSet(inflight, p, [op |-> op, id |-> id, data |-> r.data])
        /\ ret' = [op |-> "load", by |-> op, id |-> id, proc |-> p]
        /\ UNCHANGED <<files, index, now>>

\* the call of process p writes the record it holds: save_shard / json.dump
EndCall(p) ==
    /\ p \in DOMAIN inflight
    /\ LET call == inflight[p]
       IN  /\ Len(HistoryOf(Modified(call.op, call.data, now))) <= MaxHist + 1
           /\ files' = SavedWhole(files, call, now)
           /\ ret' = [op |-> "save", by |-> call.op, id |-> call.id, proc |-> p,
                      loaded |-> call.data,
                      overwritten |-> IF call.id \in DOMAIN files
                                      THEN files[call.id] ELSE EmptyDict]
    /\ inflight' = DictDel(inflight, {p})
    /\ UNCHANGED <<index, now, writes>>

RaceStates == {StoreAB, StoreSingle, StoreArchived}

InitRace ==
    /\ files \in RaceStates
    /\ index = IndexMissing
    /\ now = StartTime
    /\ ret = [op |-> "start"]
    /\ writes = 0
    /\ inflight = <<>>

NextRace ==
    \/ Tick /\ UNCHANGED inflight
    \/ \E p \in Procs, op \in RaceOps, id \in DOMAIN files : BeginCall(p, op, id)
    \/ \E p \in Procs : EndCall(p)

SpecRace == InitRace /\ [][NextRace]_vars

(* ---------------------- claims on overlapping calls ------------------- *)

Counts(op) == op \in {"update", "interact"}

Appends(op) == op \in {"update", "append"}

\* C30: nothing guards a shard between a call's load and its save. The save
\* stores the record the call loaded with the call's own change and nothing
\* else: the history is the loaded history plus at most the call's own turn and
\* the usage count is the loaded count plus at most the call's own use, so
\* whatever another call stored in between is gone.
C30_SaveOverwritesConcurrentChange ==
    [][(ret'.op = "save" /\ now' = now) =>
          LET old == ret'.loaded
              new == files'[ret'.id]
          IN  /\ UsageCount(new) = UsageCount(old) + (IF Counts(ret'.by) THEN 1 ELSE 0)
              /\ IF Appends(ret'.by)
                 THEN /\ Len(HistoryOf(new)) = Len(HistoryOf(old)) + 1
                      /\ IsPrefix(HistoryOf(old), HistoryOf(new))
                 ELSE HistoryOf(new) = HistoryOf(old)]_vars

\* two updates of one shard overlapped and both completed: the turn the first
\* stored is no longer in the history, and the count rose by one, not two
C30_Witness ==
    /\ ret.op = "save"
    /\ ret.by = "update"
    /\ ret.overwritten # ret.loaded
    /\ Len(HistoryOf(ret.overwritten)) = Len(HistoryOf(ret.loaded)) + 1
    /\ \E i \in DOMAIN HistoryOf(ret.overwritten) :
          HistoryOf(ret.overwritten)[i] \notin Range(HistoryOf(files[ret.id]))
    /\ UsageCount(ret.overwritten) = UsageCount(ret.loaded) + 1
    /\ UsageCount(files[ret.id]) = UsageCount(ret.loaded) + 1

\* C21 as stated: over any interleaving of operations the usage count of a stored
\* shard is a non-negative integer that never decreases, and a completed update
\* or interact load leaves it exactly one above the count stored before.
C21_UsageCountMonotone ==
    [][\A st \in DOMAIN files \cap DOMAIN files' :
          (~IsCorrupt(files[st]) /\ ~IsCorrupt(files'[st])) =>
             /\ UsageCount(files'[st]) \in Nat
             /\ UsageCount(files'[st]) >= UsageCount(files[st])
             /\ (ret'.op = "save" /\ now' = now /\ Counts(ret'.by) /\ ret'.id = st) =>
                   UsageCount(files'[st]) = UsageCount(files[st]) + 1]_vars

\* C21 for what the code does: the count stored by a call is a non-negative
\* integer, one above the count the call loaded for an update or an interact
\* load and equal to it for the other calls; it is one above the stored count,
\* and not below it, when no other call saved the shard since the load.
C21_UsageCountFromLoadedRecord ==
    [][\A st \in DOMAIN files \cap DOMAIN files' :
          (~IsCorrupt(files[st]) /\ ~IsCorrupt(files'[st])) =>
             /\ UsageCount(files'[st]) \in Nat
             /\ files'[st] # files[st] =>
                   /\ ret'.op = "save" /\ ret'.id = st
                   /\ UsageCount(files'[st]) =
                         UsageCount(ret'.loaded) + (IF Counts(ret'.by) THEN 1 ELSE 0)
                   /\ ret'.loaded = files[st] =>
                         UsageCount(files'[st]) >= UsageCount(files[st])]_vars

\* an update loaded a shard, nothing else touched it, and its save raised the
\* stored count by one
C21_Witness ==
    /\ ret.op = "save"
    /\ ret.by = "update"
    /\ ret.overwritten = ret.loaded
    /\ UsageCount(files[ret.id]) = UsageCount(ret.overwritten) + 1
    /\ UsageCount(files[ret.id]) > 1

(* ------------------ claims on the keys of new shards ------------------ *)

\* the step is a create or a merge that succeeded
WroteNewShard(r) ==
    \/ r.op = "create" /\ r.status = "created"
    \/ r.op = "merge" /\ r.status = "merged"

NewKey(r) == IF r.op = "create" THEN r.shard_id ELSE r.new_shard_id

\* the record names itself by the stem of its file
NamedByStem(fs, st) == "shard_id" \in DOMAIN fs[st] /\ fs[st].shard_id = st

\* every id of the index built from fs is the stem of a file load_shard reads
IndexResolves(fs, t) ==
    \A i \in DOMAIN build_index(fs, t).entries :
       load_shard(fs, build_index(fs, t).entries[i].shard_id).status = "ok"

\* C31 as stated: a create or merge writes the new shard under a key that did not
\* exist, with shard_id equal to the key, and overwrites no existing shard
\* file; every shard file any call writes has shard_id equal to its stem; every
\* id of a rebuilt index resolves through load_shard.
C31_NewKeyNothingOverwritten ==
    [][now' = now =>
          /\ WroteNewShard(ret') =>
                /\ NewKey(ret') \notin DOMAIN files
                /\ NamedByStem(files', NewKey(ret'))
                /\ \A st \in DOMAIN files : st \in DOMAIN files' /\ files'[st] = files[st]
          /\ \A st \in DOMAIN files' :
                (st \notin DOMAIN files \/ files'[st] # files[st]) => NamedByStem(files', st)
          /\ IndexResolves(files', now)]_vars

\* C31: a create or merge writes the new shard under a key that did not exist,
\* with shard_id equal to the key, so the new shard replaces no existing file;
\* the only existing files such a call rewrites are the sources of a merge with
\* archive_originals, which it marks archived. A call that rewrites an existing
\* record leaves its shard_id as it was, present or absent, and every id of a
\* rebuilt index resolves through load_shard.
C31_NewShardUnderFreshKey ==
    [][now' = now =>
          /\ WroteNewShard(ret') =>
                /\ NewKey(ret') \notin DOMAIN files
                /\ NamedByStem(files', NewKey(ret'))
                /\ DOMAIN files' = DOMAIN files \cup {NewKey(ret')}
                /\ \A st \in DOMAIN files :
                      \/ files'[st] = files[st]
                      \/ /\ ret'.op = "merge"
                         /\ ret'.archive_originals
                         /\ st \in Range(ret'.sources)
                         /\ files'[st] = MarkArchived(files[st], now)
          /\ \A st \in DOMAIN files \cap DOMAIN files' :
                (~IsCorrupt(files[st]) /\ ~IsCorrupt(files'[st])) =>
                   SameField(files[st], files'[st], "shard_id")
          /\ \A st \in DOMAIN files' \ DOMAIN files : NamedByStem(files', st)
          /\ IndexResolves(files', now)]_vars

\* a create whose base name was taken: the shard went to the next free name, the
\* file of the base name is as it was, and the new id is in the index
C31_Witness ==
    /\ ret.op = "create"
    /\ ret.status = "created"
    /\ ret.shard_id = "core_reflection_1"
    /\ NamedByStem(files, "core_reflection_1")
    /\ "core_reflection" \in DOMAIN files
    /\ \E i \in DOMAIN index.entries : index.entries[i].shard_id = "core_reflection_1"
    /\ load_shard(files, "core_reflection_1").status = "ok"

(* ------------------- claims on shards without turns ------------------- *)

\* the readable shards that carry a conversation_history and no turn in it
EmptyHistory(fs) ==
    {st \in Readable(fs) :
        /\ "conversation_history" \in DOMAIN fs[st]
        /\ fs[st]["conversation_history"] = <<>>}

\* the first of a set of stems in the order of sorted(os.listdir(SHARD_DIR))
FirstListed(fs, S) ==
    ListDir(fs)[CHOOSE i \in DOMAIN ListDir(fs) :
                   /\ ListDir(fs)[i] \in S
                   /\ \A j \in DOMAIN ListDir(fs) : ListDir(fs)[j] \in S => i <= j]

\* C32: all shards with an empty conversation_history have one and the same
\* defined fingerprint, whatever their guiding_question and meta; find_duplicates
\* reports each of them but the first in filename order as a duplicate of that
\* first one, a dedup without --dry-run deletes them and keeps the first; a
\* readable shard has no fingerprint exactly when it has neither a messages nor
\* a conversation_history field.
C32_EmptyHistoriesAreDuplicates ==
    [][(now' = now /\ ret'.op \in {"find_duplicates", "dedup"}) =>
          /\ \A a, b \in EmptyHistory(files) :
                /\ ~IsNone(ContentHash(files, a))
                /\ ContentHash(files, a) = ContentHash(files, b)
          /\ \A st \in Readable(files) :
                IsNone(ContentHash(files, st)) <=>
                   /\ "messages" \notin DOMAIN files[st]
                   /\ "conversation_history" \notin DOMAIN files[st]
          /\ EmptyHistory(files) # {} =>
                LET first == FirstListed(files, EmptyHistory(files))
                IN  /\ first \in DOMAIN files'
                    /\ \A st \in EmptyHistory(files) \ {first} :
                          /\ <<st, first>> \in Range(ret'.duplicates)
                          /\ (ret'.op = "dedup" /\ ~ret'.dry_run) =>
                                st \notin DOMAIN files']_vars

\* a shard created without an initial message made the older shard without turns
\* a duplicate of it, though their questions and meta differ, and the dedup
\* deleted the older one
C32_Witness ==
    /\ ret.op = "dedup"
    /\ ~ret.dry_run
    /\ <<"ideas_design", "core_reflection_1">> \in Range(ret.duplicates)
    /\ "ideas_design" \notin DOMAIN files
    /\ "core_reflection_1" \in EmptyHistory(files)
    /\ files["core_reflection_1"].guiding_question # ShardE1.guiding_question
    /\ files["core_reflection_1"].meta_tags.theme # ShardE1.meta_tags.theme

====
